---- MODULE Spec2Model ----
(***************************************************************************)
(* A model of the LaTeX-to-HTML resume converter.                          *)
(*                                                                         *)
(* Strings are sequences of tokens.  A token is one character of the       *)
(* source (a brace, a blank, a letter) or one literal that the code only   *)
(* ever matches as a whole (a command name with its backslash, an HTML     *)
(* tag).  Positions are the 0-based positions of JavaScript.               *)
(*                                                                         *)
(* The module holds one specification per component:                       *)
(*   SpecParser    parseLatexMacro (latex-parser.mjs)                      *)
(*   SpecPasses    processTrioHeadings / processQuadDetails                *)
(*   SpecHeadings  promoteHeadings                                         *)
(*   SpecConvert   convertLatexToHtml with extractMetadata                 *)
(*   SpecBatch     main of the batch driver                                *)
(* The variables of the components a specification does not run keep       *)
(* their idle values.                                                      *)
(***************************************************************************)
EXTENDS Integers, Sequences, FiniteSets, TLC

VARIABLES
  \* parseLatexMacro
  content, macroName, argCount, lastIndex, startPos, pos, args, currentArg,
  braceCount, parsedArgs, matches, pcParse, argOpens,
  \* processTrioHeadings, processQuadDetails
  passName, passHtml, srcInvocations, dropped, tuples, scanPos, tupleIdx,
  passOut, calls, pcPass,
  \* promoteHeadings
  headHtml, headResult, pcHead,
  \* convertLatexToHtml
  latexContent, clock, html, metadata, thrown, convResult, pcConv,
  \* main of the batch driver
  latexDirExists, dirEntries, files, fileIdx, manifest, hasErrors, writeCalls,
  written, manifestFile, uncaught, exitCode, pcMain,
  \* processQuadDetails then applyFinalCleanups
  quadArgs, cleanIn, cleanHtml, cleanFirst, cleanRound, pcClean,
  \* replaceIconMacros, in processContactHeader and in the pipeline
  contactInner, iconIn, iconHtml, iconAgain, pcIcon,
  \* processListMacros
  listIn, listResult, searchStart, listLog, pcList,
  \* kv-setup: the dispatch of the command line
  kvCommand, kvArgs, kvHandler, kvExec, kvOutput, kvExit, pcKv,
  \* mergeDateRanges
  mergeBlocks, mergeIn, mergeOut, mergePos, mergeLog, pcMerge,
  \* processQuadHeadings
  qhHtml, qhTuples, qhIdx, qhPos, qhOut, qhCalls, pcQh,
  \* extractMacroMatches (sectionType), processTechnicalSkills
  skSource, skHtml, sectionType, skOut, pcSk,
  \* cleanupParagraphWrappers
  wrapIn, wrapHtml, pcWrap,
  \* the callback of processContactHeader
  hdInner, hdText, hdName, hdAfter, hdPrimary, hdSecondary,
  hdPrimaryClean, hdSecondaryClean, hdClass, hdRight, pcHeader

parserVars == <<content, macroName, argCount, lastIndex, startPos, pos, args,
                currentArg, braceCount, parsedArgs, matches, pcParse, argOpens>>

passVars == <<passName, passHtml, srcInvocations, dropped, tuples, scanPos,
              tupleIdx, passOut, calls, pcPass>>

headingVars == <<headHtml, headResult, pcHead>>

convertVars == <<latexContent, clock, html, metadata, thrown, convResult, pcConv>>

batchVars == <<latexDirExists, dirEntries, files, fileIdx, manifest, hasErrors,
               writeCalls, written, manifestFile, uncaught, exitCode, pcMain>>

cleanupVars == <<quadArgs, cleanIn, cleanHtml, cleanFirst, cleanRound,
                 pcClean>>

iconVars == <<contactInner, iconIn, iconHtml, iconAgain, pcIcon>>

listVars == <<listIn, listResult, searchStart, listLog, pcList>>

kvVars == <<kvCommand, kvArgs, kvHandler, kvExec, kvOutput, kvExit, pcKv>>

mergeVars == <<mergeBlocks, mergeIn, mergeOut, mergePos, mergeLog, pcMerge>>

quadHeadingVars == <<qhHtml, qhTuples, qhIdx, qhPos, qhOut, qhCalls, pcQh>>

skillsVars == <<skSource, skHtml, sectionType, skOut, pcSk>>

wrapperVars == <<wrapIn, wrapHtml, pcWrap>>

headerVars == <<hdInner, hdText, hdName, hdAfter, hdPrimary, hdSecondary,
                hdPrimaryClean, hdSecondaryClean, hdClass, hdRight,
                pcHeader>>

vars == <<parserVars, passVars, headingVars, convertVars, batchVars,
          cleanupVars, iconVars, listVars, kvVars, mergeVars,
          quadHeadingVars, skillsVars, wrapperVars, headerVars>>

\* The variables a component leaves alone.
notParser == <<passVars, headingVars, convertVars, batchVars, cleanupVars,
               iconVars, listVars, kvVars, mergeVars, quadHeadingVars,
               skillsVars, wrapperVars, headerVars>>
notPasses == <<parserVars, headingVars, convertVars, batchVars, cleanupVars,
               iconVars, listVars, kvVars, mergeVars, quadHeadingVars,
               skillsVars, wrapperVars, headerVars>>
notHeadings == <<parserVars, passVars, convertVars, batchVars, cleanupVars,
                 iconVars, listVars, kvVars, mergeVars, quadHeadingVars,
                 skillsVars, wrapperVars, headerVars>>
notConvert == <<parserVars, passVars, headingVars, batchVars, cleanupVars,
                iconVars, listVars, kvVars, mergeVars, quadHeadingVars,
                skillsVars, wrapperVars, headerVars>>
notBatch == <<parserVars, passVars, headingVars, convertVars, cleanupVars,
              iconVars, listVars, kvVars, mergeVars, quadHeadingVars,
              skillsVars, wrapperVars, headerVars>>
notCleanup == <<parserVars, passVars, headingVars, convertVars, batchVars,
                iconVars, listVars, kvVars, mergeVars, quadHeadingVars,
                skillsVars, wrapperVars, headerVars>>
notIcons == <<parserVars, passVars, headingVars, convertVars, batchVars,
              cleanupVars, listVars, kvVars, mergeVars, quadHeadingVars,
              skillsVars, wrapperVars, headerVars>>
notLists == <<parserVars, passVars, headingVars, convertVars, batchVars,
              cleanupVars, iconVars, kvVars, mergeVars, quadHeadingVars,
              skillsVars, wrapperVars, headerVars>>
notKv == <<parserVars, passVars, headingVars, convertVars, batchVars,
           cleanupVars, iconVars, listVars, mergeVars, quadHeadingVars,
           skillsVars, wrapperVars, headerVars>>
notMerge == <<parserVars, passVars, headingVars, convertVars, batchVars,
              cleanupVars, iconVars, listVars, kvVars, quadHeadingVars,
              skillsVars, wrapperVars, headerVars>>
notQuadHeadings == <<parserVars, passVars, headingVars, convertVars,
                     batchVars, cleanupVars, iconVars, listVars, kvVars,
                     mergeVars, skillsVars, wrapperVars, headerVars>>
notSkills == <<parserVars, passVars, headingVars, convertVars, batchVars,
               cleanupVars, iconVars, listVars, kvVars, mergeVars,
               quadHeadingVars, wrapperVars, headerVars>>
notWrappers == <<parserVars, passVars, headingVars, convertVars, batchVars,
                 cleanupVars, iconVars, listVars, kvVars, mergeVars,
                 quadHeadingVars, skillsVars, headerVars>>
notHeader == <<parserVars, passVars, headingVars, convertVars, batchVars,
               cleanupVars, iconVars, listVars, kvVars, mergeVars,
               quadHeadingVars, skillsVars, wrapperVars>>

\* null, and a value that is not null.
Null == {}
Some(v) == {v}
ValueOf(o) == CHOOSE v \in o : TRUE

\* A component that does not run.
IdleParser ==
  /\ content = <<>> /\ macroName = "" /\ argCount = 0 /\ lastIndex = 0
  /\ startPos = 0 /\ pos = 0 /\ args = <<>> /\ currentArg = <<>>
  /\ braceCount = 0 /\ parsedArgs = 0 /\ matches = <<>> /\ pcParse = "idle"
  /\ argOpens = <<>>

IdlePasses ==
  /\ passName = "" /\ passHtml = <<>> /\ srcInvocations = <<>> /\ dropped = 0
  /\ tuples = <<>> /\ scanPos = 0 /\ tupleIdx = 0 /\ passOut = <<>>
  /\ calls = <<>> /\ pcPass = "idle"

IdleHeadings == headHtml = <<>> /\ headResult = <<>> /\ pcHead = "idle"

IdleConvert ==
  /\ latexContent = <<>> /\ clock = <<>> /\ html = <<>> /\ metadata = Null
  /\ thrown = Null /\ convResult = Null /\ pcConv = 0

IdleBatch ==
  /\ latexDirExists = FALSE /\ dirEntries = <<>> /\ files = <<>> /\ fileIdx = 0
  /\ manifest = <<>> /\ hasErrors = FALSE /\ writeCalls = {} /\ written = {}
  /\ manifestFile = Null /\ uncaught = Null /\ exitCode = Null /\ pcMain = "idle"

IdleCleanup ==
  /\ quadArgs = Null /\ cleanIn = <<>> /\ cleanHtml = <<>> /\ cleanFirst = Null
  /\ cleanRound = 0 /\ pcClean = 0

IdleIcons ==
  /\ contactInner = Null /\ iconIn = <<>> /\ iconHtml = <<>> /\ iconAgain = Null
  /\ pcIcon = 0

IdleLists ==
  /\ listIn = <<>> /\ listResult = <<>> /\ searchStart = 0 /\ listLog = <<>>
  /\ pcList = "idle"

IdleKv ==
  /\ kvCommand = Null /\ kvArgs = <<>> /\ kvHandler = Null /\ kvExec = <<>>
  /\ kvOutput = <<>> /\ kvExit = Null /\ pcKv = "idle"

IdleMerge ==
  /\ mergeBlocks = <<>> /\ mergeIn = <<>> /\ mergeOut = <<>> /\ mergePos = 0
  /\ mergeLog = <<>> /\ pcMerge = "idle"

IdleQuadHeadings ==
  /\ qhHtml = <<>> /\ qhTuples = <<>> /\ qhIdx = 0 /\ qhPos = 0 /\ qhOut = <<>>
  /\ qhCalls = <<>> /\ pcQh = "idle"

IdleSkills ==
  /\ skSource = <<>> /\ skHtml = <<>> /\ sectionType = <<>> /\ skOut = <<>>
  /\ pcSk = "idle"

IdleWrappers ==
  /\ wrapIn = <<>> /\ wrapHtml = <<>> /\ pcWrap = 0

IdleHeader ==
  /\ hdInner = <<>> /\ hdText = <<>> /\ hdName = <<>> /\ hdAfter = <<>>
  /\ hdPrimary = <<>> /\ hdSecondary = <<>> /\ hdPrimaryClean = <<>>
  /\ hdSecondaryClean = <<>> /\ hdClass = "" /\ hdRight = <<>> /\ pcHeader = 0

(***************************************************************************)
(* Strings                                                                 *)
(***************************************************************************)

\* s[p] of JavaScript, for a position inside the string.
At(s, p) == s[p + 1]

Min(a, b) == IF a < b THEN a ELSE b

\* s.substring(a, b) / s.slice(a, b) for 0 <= a: the tokens at a .. b-1,
\* b clamped to the length.
Substring(s, a, b) == SubSeq(s, a + 1, Min(b, Len(s)))

\* The white space String.prototype.trim removes.
IsSpace(c) == c \in {" ", "\n", "\t"}

\* String.prototype.trim: without mutation.
RECURSIVE TrimStart(_)
TrimStart(s) ==
  IF s # <<>> /\ IsSpace(Head(s)) THEN TrimStart(Tail(s)) ELSE s

RECURSIVE TrimEnd(_)
TrimEnd(s) ==
  IF s # <<>> /\ IsSpace(s[Len(s)]) THEN TrimEnd(SubSeq(s, 1, Len(s) - 1)) ELSE s

NoTrim(s) == s

Trim(s) == TrimEnd(TrimStart(s))

RECURSIVE Flatten(_)
Flatten(ss) == IF ss = <<>> THEN <<>> ELSE Head(ss) \o Flatten(Tail(ss))

(***************************************************************************)
(* parseLatexMacro: the inputs                                             *)
(***************************************************************************)

\* The most invocations of the macro in one source text.
MaxInvocations == 2

\* The token of the macro's name with its backslash.
Cmd(name) == CASE name = "resumeTrioHeading" -> "\\resumeTrioHeading"
               [] name = "resumeQuadHeadingDetails" -> "\\resumeQuadHeadingDetails"
               [] OTHER -> "\\other"

\* The calls of extractMacroMatches for the two 3-argument macros.
ThreeArgCalls == {<<"resumeTrioHeading", 3>>, <<"resumeQuadHeadingDetails", 3>>}

\* First arguments: flat, padded with a nested group, holding an invocation.
FirstArgs(c) ==
  { <<"{", "a", "}">>,
    <<"{", " ", "a", "{", "b", "}", " ", "}">>,
    <<"{", c, "{", "b", "}", "{", "b", "}", "{", "b", "}", "}">> }

\* Second arguments, after a blank or directly.
SecondArgs == { <<"{", "b", "}">>, <<" ", "{", "{", "a", "}", "b", "}">> }

\* Third arguments: closed, missing, left open, after a stray closing brace.
ThirdArgs ==
  { <<"{", "c", " ", "}", "x">>, <<"x">>, <<"{", "c">>, <<"}", "{", "c", "}">> }

InvocationTexts(c) ==
  { <<c>> \o a1 \o a2 \o a3 : a1 \in FirstArgs(c), a2 \in SecondArgs, a3 \in ThirdArgs }

Sources(c) ==
  UNION { { Flatten(f) : f \in [1..n -> InvocationTexts(c)] } : n \in 0..MaxInvocations }

(***************************************************************************)
(* parseLatexMacro: one action per step of its two loops                   *)
(***************************************************************************)

InitParser ==
  /\ \E call \in ThreeArgCalls :
       /\ macroName = call[1]
       /\ argCount = call[2]
       /\ content \in Sources(Cmd(call[1]))
  /\ lastIndex = 0
  /\ startPos = 0
  /\ pos = 0
  /\ args = <<>>
  /\ currentArg = <<>>
  /\ braceCount = 0
  /\ parsedArgs = 0
  /\ matches = <<>>
  /\ argOpens = <<>>
  /\ pcParse = "exec"
  /\ IdlePasses
  /\ IdleHeadings
  /\ IdleConvert
  /\ IdleBatch
  /\ IdleCleanup
  /\ IdleIcons
  /\ IdleLists
  /\ IdleKv
  /\ IdleMerge
  /\ IdleQuadHeadings
  /\ IdleSkills
  /\ IdleWrappers
  /\ IdleHeader

\* The positions at or after lastIndex where the regex \\name\{ matches.
RegexHits ==
  { i \in lastIndex .. Len(content) - 2 :
      At(content, i) = Cmd(macroName) /\ At(content, i + 1) = "{" }

\* regex.exec(content) finds the next invocation: the walk starts on its
\* opening brace.
RegexExecMatch ==
  /\ pcParse = "exec"
  /\ RegexHits # {}
  /\ LET i == CHOOSE h \in RegexHits : \A k \in RegexHits : h <= k IN
       /\ startPos' = i
       /\ pos' = i + 2 - 1
       /\ lastIndex' = i + 2
       /\ argOpens' = <<i + 1>>
  /\ args' = <<>>
  /\ currentArg' = <<>>
  /\ braceCount' = 1
  /\ parsedArgs' = 0
  /\ pcParse' = "walk"
  /\ UNCHANGED <<notParser, content, macroName, argCount, matches>>

\* regex.exec(content) returns null: the function returns matches.
RegexExecNull ==
  /\ pcParse = "exec"
  /\ RegexHits = {}
  /\ pcParse' = "done"
  /\ UNCHANGED <<notParser, argOpens, content, macroName, argCount, lastIndex, startPos, pos, args,
                 currentArg, braceCount, parsedArgs, matches>>

InWalk == pcParse = "walk" /\ parsedArgs < argCount /\ pos < Len(content)

\* content[pos] after pos++; undefined past the end, which += appends as text.
NextChar == IF pos + 1 < Len(content) THEN At(content, pos + 1) ELSE "undefined"

WalkOpenBrace_NoAppend ==
  /\ InWalk
  /\ NextChar = "{"
  /\ pos' = pos + 1
  /\ braceCount' = braceCount + 1
  /\ UNCHANGED currentArg
  /\ UNCHANGED <<notParser, argOpens, content, macroName, argCount, lastIndex, startPos, args,
                 parsedArgs, matches, pcParse>>

WalkOpenBrace ==
  /\ InWalk
  /\ NextChar = "{"
  /\ pos' = pos + 1
  /\ braceCount' = braceCount + 1
  /\ currentArg' = Append(currentArg, "{")
  /\ UNCHANGED <<notParser, argOpens, content, macroName, argCount, lastIndex, startPos, args,
                 parsedArgs, matches, pcParse>>

\* The position the inner while loop stops at, from p: the next "{" or the end.
RECURSIVE SkipToBrace(_, _)
SkipToBrace(s, p) ==
  IF p < Len(s) /\ At(s, p) # "{" THEN SkipToBrace(s, p + 1) ELSE p

\* A closing brace that ends the argument, the depth left at 0 afterwards.
WalkCloseArgument_NoReset ==
  /\ InWalk
  /\ NextChar = "}"
  /\ braceCount - 1 <= 0
  /\ args' = Append(args, Trim(currentArg))
  /\ parsedArgs' = parsedArgs + 1
  /\ currentArg' = <<>>
  /\ LET q == SkipToBrace(content, pos + 1) IN
       /\ pos' = q
       /\ braceCount' = braceCount - 2
       /\ argOpens' = IF q < Len(content) THEN Append(argOpens, q) ELSE argOpens
  /\ UNCHANGED <<notParser, content, macroName, argCount, lastIndex, startPos, matches,
                 pcParse>>

\* A closing brace that ends the argument.  argOpens records where each
\* argument of the invocation begins: the brace the walk starts on, then each
\* brace the inner loop stops at.
WalkCloseArgument ==
  /\ InWalk
  /\ NextChar = "}"
  /\ braceCount - 1 = 0
  /\ args' = Append(args, Trim(currentArg))
  /\ parsedArgs' = parsedArgs + 1
  /\ currentArg' = <<>>
  /\ LET q == SkipToBrace(content, pos + 1) IN
       /\ pos' = q
       /\ braceCount' = IF q < Len(content) THEN 1 ELSE 0
       /\ argOpens' = IF q < Len(content) THEN Append(argOpens, q) ELSE argOpens
  /\ UNCHANGED <<notParser, content, macroName, argCount, lastIndex, startPos, matches,
                 pcParse>>

\* A closing brace of a nested group.
WalkCloseNested ==
  /\ InWalk
  /\ NextChar = "}"
  /\ braceCount - 1 # 0
  /\ pos' = pos + 1
  /\ braceCount' = braceCount - 1
  /\ currentArg' = Append(currentArg, "}")
  /\ UNCHANGED <<notParser, argOpens, content, macroName, argCount, lastIndex, startPos, args,
                 parsedArgs, matches, pcParse>>

WalkOther ==
  /\ InWalk
  /\ NextChar \notin {"{", "}"}
  /\ pos' = pos + 1
  /\ currentArg' = Append(currentArg, NextChar)
  /\ UNCHANGED <<notParser, argOpens, content, macroName, argCount, lastIndex, startPos, args,
                 braceCount, parsedArgs, matches, pcParse>>

\* The invocation kept with the arguments read so far.
WalkEnd_KeepsPartial ==
  /\ pcParse = "walk"
  /\ ~(parsedArgs < argCount /\ pos < Len(content))
  /\ matches' = Append(matches, [index |-> startPos,
                                 full |-> Substring(content, startPos, pos + 1),
                                 args |-> args,
                                 opens |-> SubSeq(argOpens, 1, Len(args))])
  /\ pcParse' = "exec"
  /\ UNCHANGED <<notParser, argOpens, content, macroName, argCount, lastIndex, startPos, pos, args,
                 currentArg, braceCount, parsedArgs>>

\* The walk is over: the invocation is kept when all its arguments were read.
\* index is the match's position, kept beside the tuple [fullMatch, ...args].
WalkEnd ==
  /\ pcParse = "walk"
  /\ ~(parsedArgs < argCount /\ pos < Len(content))
  /\ matches' =
       IF Len(args) >= argCount
         THEN Append(matches, [index |-> startPos,
                               full |-> Substring(content, startPos, pos + 1),
                               args |-> args,
                               opens |-> SubSeq(argOpens, 1, Len(args))])
         ELSE matches
  /\ pcParse' = "exec"
  /\ UNCHANGED <<notParser, argOpens, content, macroName, argCount, lastIndex, startPos, pos, args,
                 currentArg, braceCount, parsedArgs>>

NextParser ==
  \/ RegexExecMatch
  \/ RegexExecNull
  \/ WalkOpenBrace
  \/ WalkCloseArgument
  \/ WalkCloseNested
  \/ WalkOther
  \/ WalkEnd

SpecParser == InitParser /\ [][NextParser]_vars

(***************************************************************************)
(* What the source text says, read off the text alone                      *)
(***************************************************************************)

\* The positions where an invocation of the macro starts.
Invocations(s, c) ==
  { i \in 0 .. Len(s) - 2 : At(s, i) = c /\ At(s, i + 1) = "{" }

CountOf(s, a, b, t) == Cardinality({ k \in a .. b : At(s, k) = t })

\* No closing brace without its opening brace, none left open.
Balanced(s) ==
  /\ \A p \in 0 .. Len(s) - 1 : CountOf(s, 0, p, "}") <= CountOf(s, 0, p, "{")
  /\ CountOf(s, 0, Len(s) - 1, "}") = CountOf(s, 0, Len(s) - 1, "{")

\* The brace closing the group opened at o, -1 when it is never closed.
CloseOf(s, o) ==
  LET cs == { c \in o + 1 .. Len(s) - 1 :
                CountOf(s, o, c, "{") = CountOf(s, o, c, "}") }
  IN IF cs = {} THEN -1 ELSE CHOOSE c \in cs : \A d \in cs : c <= d

\* The opening brace that follows from p on after blanks only, else -1.
RECURSIVE OpenAfter(_, _)
OpenAfter(s, p) ==
  IF p >= Len(s) THEN -1
  ELSE IF At(s, p) = "{" THEN p
  ELSE IF IsSpace(At(s, p)) THEN OpenAfter(s, p + 1)
  ELSE -1

\* The braces <<open, close>> of the brace groups, at most n, that start with
\* the one opened at o and follow each other after blanks only.
RECURSIVE GroupsFrom(_, _, _)
GroupsFrom(s, o, n) ==
  IF n = 0 \/ o = -1 THEN <<>>
  ELSE LET c == CloseOf(s, o) IN
       IF c = -1 THEN <<>>
       ELSE << <<o, c>> >> \o GroupsFrom(s, OpenAfter(s, c + 1), n - 1)

\* The brace groups, at most n, of the invocation at i.
Groups(s, i, n) == GroupsFrom(s, i + 1, n)

\* The invocation at i is followed by n correctly closed brace groups.
HasGroups(s, i, n) == Len(Groups(s, i, n)) = n

\* The text between the braces g.
GroupText(s, g) == Substring(s, g[1] + 1, g[2])

WellFormed(s, c, n) ==
  /\ Balanced(s)
  /\ \A i \in Invocations(s, c) : HasGroups(s, i, n)

NoOuterSpace(t) == t = <<>> \/ (~IsSpace(t[1]) /\ ~IsSpace(t[Len(t)]))

\* t is sub without the white space around it, and nothing else removed.
TrimmedOf(sub, t) ==
  /\ NoOuterSpace(t)
  /\ \E l \in 0 .. Len(sub) :
       /\ l + Len(t) <= Len(sub)
       /\ SubSeq(sub, l + 1, l + Len(t)) = t
       /\ \A k \in 1 .. Len(sub) : (k <= l \/ k > l + Len(t)) => IsSpace(sub[k])

(***************************************************************************)
(* Claims about parseLatexMacro                                            *)
(***************************************************************************)

\* C1: for a source text with balanced braces in which each of the K
\* invocations of the 3-argument macro is followed by three closed brace
\* groups, parseLatexMacro returns K tuples of 3 arguments each, none with
\* leading or trailing white space, in the order of the invocations.
C1_TuplePerInvocation ==
  (pcParse = "done" /\ WellFormed(content, Cmd(macroName), argCount)) =>
    /\ Len(matches) = Cardinality(Invocations(content, Cmd(macroName)))
    /\ \A k \in 1 .. Len(matches) :
         /\ Len(matches[k].args) = 3
         /\ \A j \in 1 .. 3 : NoOuterSpace(matches[k].args[j])
         /\ matches[k].index \in Invocations(content, Cmd(macroName))
         /\ Cardinality({ i \in Invocations(content, Cmd(macroName)) :
                            i < matches[k].index }) = k - 1

\* C1 witness: a well-formed text with nested invocations was parsed to the
\* end, and white space was trimmed from an argument.
C1_Witness ==
  /\ pcParse = "done"
  /\ WellFormed(content, Cmd(macroName), argCount)
  /\ Len(matches) >= 3
  /\ \E k \in 1 .. Len(matches) :
       LET gs == Groups(content, matches[k].index, argCount) IN
       \E j \in 1 .. 3 : GroupText(content, gs[j]) # matches[k].args[j]

\* C2: an argument that is a closed brace group is returned as the text
\* between its outermost braces, nested braces included as they stand, with
\* only the white space around it removed.
C2_NestedBracesVerbatim ==
  pcParse = "done" =>
    \A k \in 1 .. Len(matches) :
      LET gs == Groups(content, matches[k].index, argCount) IN
      Len(gs) = argCount =>
        \A j \in 1 .. argCount :
          TrimmedOf(GroupText(content, gs[j]), matches[k].args[j])

\* C2 witness: a returned argument holds a nested brace group.
C2_Witness ==
  /\ pcParse = "done"
  /\ \E k \in 1 .. Len(matches) :
       LET gs == Groups(content, matches[k].index, argCount) IN
       /\ Len(gs) = argCount
       /\ \E j \in 1 .. argCount :
            /\ \E n \in 1 .. Len(matches[k].args[j]) : matches[k].args[j][n] = "{"
            /\ Len(matches[k].args[j]) < Len(GroupText(content, gs[j]))

\* The first opening brace at or after p, -1 when there is none.
RECURSIVE NextOpen(_, _)
NextOpen(s, p) ==
  IF p >= Len(s) THEN -1
  ELSE IF At(s, p) = "{" THEN p
  ELSE NextOpen(s, p + 1)

\* The braces <<open, close>> of the closed brace groups, at most n, that
\* start with the one opened at o, each next one at the first opening brace
\* after the close of the one before, whatever lies between them.
RECURSIVE ArgumentsFrom(_, _, _)
ArgumentsFrom(s, o, n) ==
  IF n = 0 \/ o = -1 THEN <<>>
  ELSE LET c == CloseOf(s, o) IN
       IF c = -1 THEN <<>>
       ELSE << <<o, c>> >> \o ArgumentsFrom(s, NextOpen(s, c + 1), n - 1)

\* The text ends before the invocation at i has n completed arguments.
EndsBeforeArguments(s, i, n) == Len(ArgumentsFrom(s, i + 1, n)) < n

\* C15: an invocation whose arguments the text ends before completing, a
\* brace left open or an argument missing, has no tuple in the result, and
\* the function runs to its return.
C15_IncompleteInvocationOmitted ==
  /\ pcParse \in {"exec", "walk", "done"}
  /\ pcParse = "done" =>
       \A i \in Invocations(content, Cmd(macroName)) :
         EndsBeforeArguments(content, i, argCount) =>
           \A k \in 1 .. Len(matches) : matches[k].index # i

\* C15 witness: the text ended inside the last invocation, which is not in
\* the result, while an invocation before it is.
C15_Witness ==
  /\ pcParse = "done"
  /\ Len(matches) >= 1
  /\ \E i \in Invocations(content, Cmd(macroName)) :
       /\ EndsBeforeArguments(content, i, argCount)
       /\ \A k \in 1 .. Len(matches) : matches[k].index < i

\* C18: the search for the next invocation resumes after the last argument
\* of the invocation before it: no tuple comes from an occurrence of the
\* macro name inside the arguments of another tuple's invocation.
C18_NoTupleFromConsumedText ==
  pcParse = "done" =>
    \A k, m \in 1 .. Len(matches) :
      LET as == ArgumentsFrom(content, matches[k].index + 1, argCount) IN
      ~(/\ matches[k].index < matches[m].index
        /\ matches[m].index <= as[Len(as)][2])

\* C19: the first element of a tuple is the text of its invocation, from the
\* backslash through the closing brace of the last argument.
C19_FullMatchIsInvocationText ==
  pcParse = "done" =>
    \A k \in 1 .. Len(matches) :
      LET as == ArgumentsFrom(content, matches[k].index + 1, argCount) IN
      matches[k].full = Substring(content, matches[k].index, as[Len(as)][2] + 1)

(***************************************************************************)
(* html-helpers.mjs: \href commands                                        *)
(***************************************************************************)

\* The tokens of s before the first "}", all of s when there is none.
RECURSIVE UpToClose(_)
UpToClose(s) ==
  IF s = <<>> \/ Head(s) = "}" THEN <<>> ELSE <<Head(s)>> \o UpToClose(Tail(s))

\* The match of /\\href\{([^}]+)\}\{([^}]+)\}/ that starts at position i of s:
\* <<url, text>>, or <<>> when the regex does not match there.
HrefMatchAt(s, i) ==
  IF ~(i + 1 < Len(s) /\ At(s, i) = "\\href" /\ At(s, i + 1) = "{") THEN <<>>
  ELSE LET url == UpToClose(Substring(s, i + 2, Len(s)))
           j == i + 2 + Len(url)
       IN IF url = <<>> \/ ~(j + 1 < Len(s)) \/ At(s, j) # "}" \/ At(s, j + 1) # "{"
          THEN <<>>
          ELSE LET text == UpToClose(Substring(s, j + 2, Len(s)))
                   e == j + 2 + Len(text)
               IN IF text = <<>> \/ ~(e < Len(s)) \/ At(s, e) # "}"
                  THEN <<>>
                  ELSE <<url, text>>

\* text.replace(/\\uline\{([^}]+)\}/g, '$1')
RECURSIVE StripClosedUline(_)
StripClosedUline(t) ==
  IF t = <<>> THEN <<>>
  ELSE LET inner == UpToClose(Substring(t, 2, Len(t))) IN
       IF /\ Len(t) >= 2 /\ t[1] = "\\uline" /\ t[2] = "{"
          /\ inner # <<>>
          /\ 2 + Len(inner) < Len(t)
       THEN inner \o StripClosedUline(Substring(t, 2 + Len(inner) + 1, Len(t)))
       ELSE <<Head(t)>> \o StripClosedUline(Tail(t))

\* text.replace(/\\uline\{([^}]*)$/g, '$1')
RECURSIVE StripOpenUline(_)
StripOpenUline(t) ==
  IF t = <<>> THEN <<>>
  ELSE IF /\ Len(t) >= 2 /\ t[1] = "\\uline" /\ t[2] = "{"
          /\ UpToClose(Substring(t, 2, Len(t))) = Substring(t, 2, Len(t))
       THEN Substring(t, 2, Len(t))
       ELSE <<Head(t)>> \o StripOpenUline(Tail(t))

\* parseHrefCommand: <<url, cleanedText>> of the first match, <<>> for null.
ParseHrefCommand(hrefString) ==
  LET hits == { i \in 0 .. Len(hrefString) - 1 : HrefMatchAt(hrefString, i) # <<>> }
  IN IF hits = {} THEN <<>>
     ELSE LET m == HrefMatchAt(hrefString, CHOOSE i \in hits : \A k \in hits : i <= k)
          IN <<m[1], StripOpenUline(StripClosedUline(m[2]))>>

Bold(t) == <<"<strong>">> \o t \o <<"</strong>">>

\* hrefToAnchor
HrefToAnchor(hrefString, makeBold) ==
  LET includesHref == \E i \in 0 .. Len(hrefString) - 2 :
                        At(hrefString, i) = "\\href" /\ At(hrefString, i + 1) = "{"
      parsed == ParseHrefCommand(hrefString)
  IN IF ~includesHref \/ parsed = <<>>
     THEN IF makeBold THEN Bold(hrefString) ELSE hrefString
     ELSE <<"<a href=\"">> \o parsed[1]
            \o <<"\"", " target=\"_blank\" rel=\"noopener noreferrer\"", ">">>
            \o (IF makeBold THEN Bold(parsed[2]) ELSE parsed[2])
            \o <<"</a>">>

(***************************************************************************)
(* processTrioHeadings, processQuadDetails                                 *)
(***************************************************************************)

\* The most invocations of a macro in the source, and markers in the HTML.
MaxMarkers == 3

TrioMarker == "<span class=\"macro macro-resumeTrioHeading\"></span>"
QuadDetailsMarker == "<span class=\"macro macro-resumeQuadHeadingDetails\"></span>"

Marker(name) == IF name = "processTrioHeadings" THEN TrioMarker ELSE QuadDetailsMarker

\* The tokens the lookahead (?=(<ul|<span|<\/div|<\/p)) stops at.
IsTerminator(tok) ==
  tok \in {TrioMarker, QuadDetailsMarker, "<span class=\"macro macro-uline\"></span>",
           "<ul>", "</div>", "</p>"}

\* The token of the en dash U+2013.
EnDash == "\\u2013"

\* dateText.replace(/\s*--\s*/g, ' \u2013 ')
RECURSIVE ReplaceDashes(_)
ReplaceDashes(s) ==
  IF s = <<>> THEN <<>>
  ELSE LET rest == TrimStart(s) IN
       IF rest # <<>> /\ Head(rest) = "--"
       THEN <<" ", EnDash, " ">> \o ReplaceDashes(TrimStart(Tail(rest)))
       ELSE <<Head(s)>> \o ReplaceDashes(Tail(s))

\* text.replace(/\s+/g, ' ')
RECURSIVE CollapseSpaces(_)
CollapseSpaces(s) ==
  IF s = <<>> THEN <<>>
  ELSE IF IsSpace(Head(s)) THEN <<" ">> \o CollapseSpaces(TrimStart(s))
  ELSE <<Head(s)>> \o CollapseSpaces(Tail(s))

\* The block processTrioHeadings returns for the tuple parsed.
RenderTrio(parsed) ==
  <<"\n<div class=\"trio\">\n  <div class=\"trio-title\"><strong>">>
    \o Trim(parsed[2])
    \o <<"</strong></div>\n  <div class=\"trio-tech\"><em>">>
    \o Trim(parsed[3])
    \o <<"</em></div>\n  <div class=\"trio-link\">">>
    \o HrefToAnchor(parsed[4], FALSE)
    \o <<"</div>\n</div>">>

\* The block processQuadDetails returns for the tuple parsed.
RenderQuadDetails(parsed) ==
  LET cleanDateText == Trim(CollapseSpaces(ReplaceDashes(parsed[3])))
      cleanRoleText == Trim(CollapseSpaces(parsed[4]))
  IN <<"\n<div class=\"quad-details\">\n  <div class=\"row\"><div class=\"left\">">>
       \o HrefToAnchor(parsed[2], TRUE)
       \o <<"</div><div class=\"right\"><span class=\"date\">">>
       \o cleanDateText
       \o <<"</span></div></div>\n  <div class=\"row\"><div class=\"left\"><em>">>
       \o cleanRoleText
       \o <<"</em></div><div class=\"right\"></div></div>\n</div>">>

Render(name, parsed) ==
  IF name = "processTrioHeadings" THEN RenderTrio(parsed) ELSE RenderQuadDetails(parsed)

\* The replace callback with no tuple deleting the match.
TrioCallback_DropsUnmatched(m, idx) ==
  IF idx >= Len(tuples) THEN <<>> ELSE RenderTrio(tuples[idx + 1])

\* The replace callback of processTrioHeadings: m is the match, idx the value
\* of trioIdx before trioIdx++.
TrioCallback(m, idx) ==
  IF idx >= Len(tuples) THEN m ELSE RenderTrio(tuples[idx + 1])

\* The replace callback of processQuadDetails.
QuadDetailsCallback(m, idx) ==
  IF idx >= Len(tuples) THEN m ELSE RenderQuadDetails(tuples[idx + 1])

\* Destructuring a tuple with fewer than three arguments leaves undefined,
\* and .trim() or .replace() of undefined throws a TypeError.
CallbackThrows(idx) == idx < Len(tuples) /\ Len(tuples[idx + 1]) < 4

(* The inputs *)

\* What the renderer leaves after a marker: the arguments' text and the end of
\* the paragraph, nothing, or text with no closing tag.
SiteTails == { <<"text", "</p>">>, <<>>, <<"text">> }

Sites(name) == { <<"<p>", Marker(name)>> \o t : t \in SiteTails }

Fragments(name) ==
  UNION { { Flatten(f) : f \in [1..n -> Sites(name)] } : n \in 0..MaxMarkers }

\* Argument triples of the source's invocations.
TrioArgs ==
  { << <<"P">>, <<"T", " ">>,
       <<"\\href", "{", "u", "}", "{", "\\uline", "{", "L", "}", "}">> >>,
    << <<"Q">>, <<"S">>, <<"plain">> >> }

QuadDetailsArgs ==
  { << <<"\\href", "{", "u", "}", "{", "\\uline", "{", "L", "}", "}">>,
       <<"2023", " ", "--", "\n", "Present">>, <<"Dev", " ", " ", "Lead">> >>,
    << <<"Org">>, <<"2020", "--", "2021">>, <<"Intern">> >> }

ArgsOf(name) == IF name = "processTrioHeadings" THEN TrioArgs ELSE QuadDetailsArgs

MacroOf(name) ==
  IF name = "processTrioHeadings" THEN "resumeTrioHeading" ELSE "resumeQuadHeadingDetails"

\* The tuple [fullMatch, arg1, arg2, arg3] parseLatexMacro returns for the
\* invocation \name{arg1}{arg2}{arg3}.
TupleOf(name, a) ==
  << <<Cmd(MacroOf(name)), "{">> \o a[1] \o <<"}", "{">> \o a[2] \o <<"}", "{">>
       \o a[3] \o <<"}">>,
     Trim(a[1]), Trim(a[2]), Trim(a[3]) >>

\* seq without its j-th element; seq itself for j = 0.
RemoveAt(seq, j) ==
  [k \in 1 .. (IF j = 0 THEN Len(seq) ELSE Len(seq) - 1) |->
     IF j = 0 \/ k < j THEN seq[k] ELSE seq[k + 1]]

InitPasses ==
  /\ passName \in {"processTrioHeadings", "processQuadDetails"}
  /\ passHtml \in Fragments(passName)
  /\ \E n \in 0 .. MaxMarkers :
       srcInvocations \in [1..n -> { TupleOf(passName, a) : a \in ArgsOf(passName) }]
  /\ dropped \in 0 .. Len(srcInvocations)
  /\ tuples = RemoveAt(srcInvocations, dropped)
  /\ scanPos = 0
  /\ tupleIdx = 0
  /\ passOut = <<>>
  /\ calls = <<>>
  /\ pcPass = "replace"
  /\ IdleParser
  /\ IdleHeadings
  /\ IdleConvert
  /\ IdleBatch
  /\ IdleCleanup
  /\ IdleIcons
  /\ IdleLists
  /\ IdleKv
  /\ IdleMerge
  /\ IdleQuadHeadings
  /\ IdleSkills
  /\ IdleWrappers
  /\ IdleHeader

\* The positions at or after scanPos where the regex of the pass matches: a
\* marker with a terminator somewhere after it.
MarkerHits ==
  { i \in scanPos .. Len(passHtml) - 1 :
      /\ At(passHtml, i) = Marker(passName)
      /\ \E t \in i + 1 .. Len(passHtml) - 1 : IsTerminator(At(passHtml, t)) }

\* The end of the match that starts at i: the first terminator after the marker.
MatchEnd(i) ==
  CHOOSE t \in i + 1 .. Len(passHtml) - 1 :
    /\ IsTerminator(At(passHtml, t))
    /\ \A u \in i + 1 .. t - 1 : ~IsTerminator(At(passHtml, u))

\* One match of html.replace: the text before it is copied, the callback's
\* result takes the place of the match.  calls records each call of the
\* callback: the match, the index it used, what it returned and where that
\* went in the output.
ReplaceMatch(ret) ==
  LET i == CHOOSE h \in MarkerHits : \A k \in MarkerHits : h <= k
      m == Substring(passHtml, i, MatchEnd(i))
      before == Substring(passHtml, scanPos, i)
  IN /\ calls' = Append(calls, [site |-> i, m |-> m, idx |-> tupleIdx,
                                at |-> Len(passOut) + Len(before), ret |-> ret])
     /\ tupleIdx' = tupleIdx + 1
     /\ IF CallbackThrows(tupleIdx)
          THEN pcPass' = "threw" /\ UNCHANGED <<passOut, scanPos>>
          ELSE /\ passOut' = passOut \o before \o ret
               /\ scanPos' = MatchEnd(i)
               /\ UNCHANGED pcPass
     /\ UNCHANGED <<notPasses, passName, passHtml, srcInvocations, dropped, tuples>>

FirstMatch == Substring(passHtml, CHOOSE h \in MarkerHits : \A k \in MarkerHits : h <= k,
                        MatchEnd(CHOOSE h \in MarkerHits : \A k \in MarkerHits : h <= k))

ProcessTrioHeadingsMatch ==
  /\ pcPass = "replace"
  /\ passName = "processTrioHeadings"
  /\ MarkerHits # {}
  /\ ReplaceMatch(TrioCallback(FirstMatch, tupleIdx))

ProcessQuadDetailsMatch ==
  /\ pcPass = "replace"
  /\ passName = "processQuadDetails"
  /\ MarkerHits # {}
  /\ ReplaceMatch(QuadDetailsCallback(FirstMatch, tupleIdx))

\* No further match: the rest is copied and the pass returns.
ReplaceReturn ==
  /\ pcPass = "replace"
  /\ MarkerHits = {}
  /\ passOut' = passOut \o Substring(passHtml, scanPos, Len(passHtml))
  /\ scanPos' = Len(passHtml)
  /\ pcPass' = "done"
  /\ UNCHANGED <<notPasses, passName, passHtml, srcInvocations, dropped, tuples,
                 tupleIdx, calls>>

NextPasses ==
  \/ ProcessTrioHeadingsMatch
  \/ ProcessQuadDetailsMatch
  \/ ReplaceReturn

SpecPasses == InitPasses /\ [][NextPasses]_vars

(***************************************************************************)
(* Claims about processTrioHeadings and processQuadDetails                 *)
(***************************************************************************)

\* The markers of the pass in h that its regex matches.
MatchedMarkers(h, name) ==
  { i \in 0 .. Len(h) - 1 :
      /\ At(h, i) = Marker(name)
      /\ \E t \in i + 1 .. Len(h) - 1 : IsTerminator(At(h, t)) }

\* C3: when the renderer emitted one marker per invocation and the extractor
\* dropped the tuple of the j-th invocation, the pass leaves the marker of the
\* j-th invocation as it is and renders every other marker with the arguments
\* of its own invocation.
C3_DroppedInvocationMarkerSkipped ==
  (/\ pcPass = "done"
   /\ dropped # 0
   /\ Cardinality(MatchedMarkers(passHtml, passName)) = Len(srcInvocations)) =>
    \A k \in 1 .. Len(calls) :
      IF k = dropped
        THEN calls[k].ret = calls[k].m
        ELSE calls[k].ret = Render(passName, srcInvocations[k])

\* C4: whatever the fragment and the tuples, a matched marker with no tuple
\* is emitted with the text it matched exactly as it was, a matched marker
\* with a tuple is replaced by the block of that tuple, and the pass does not
\* throw.
C4_MarkerWithoutTupleUnchanged ==
  /\ pcPass # "threw"
  /\ pcPass = "done" =>
       /\ Len(calls) = Cardinality(MatchedMarkers(passHtml, passName))
       /\ tuples = <<>> => passOut = passHtml
       /\ \A k \in 1 .. Len(calls) :
            LET c == calls[k] IN
            /\ c.m = Substring(passHtml, c.site, c.site + Len(c.m))
            /\ c.m[1] = Marker(passName)
            /\ k > Len(tuples) =>
                 Substring(passOut, c.at, c.at + Len(c.m)) = c.m
            /\ k <= Len(tuples) =>
                 LET block == Render(passName, tuples[k]) IN
                 /\ Substring(passOut, c.at, c.at + Len(block)) = block
                 /\ \A n \in 1 .. Len(block) : block[n] # Marker(passName)

\* C4 witness: a pass over more matched markers than tuples rewrote the first
\* marker and left the last one, with the text after it, in place.
C4_Witness ==
  /\ pcPass = "done"
  /\ Len(tuples) >= 1
  /\ Len(calls) > Len(tuples)
  /\ Len(calls[Len(calls)].m) > 1
  /\ calls[Len(calls)].ret = calls[Len(calls)].m

(***************************************************************************)
(* promoteHeadings                                                         *)
(*                                                                         *)
(* Here a token is <<kind, level, text>>: an opening heading tag with its  *)
(* attributes, a closing heading tag, or text.                             *)
(***************************************************************************)

\* The most headings in one fragment.
MaxHeadings == 3

OpenTag(level, attrs) == <<"open", level, attrs>>
CloseTag(level) == <<"close", level, "">>
TextNode(t) == <<"text", 0, t>>

HeadingLevels == {2, 3, 4}

Headings ==
  { <<OpenTag(l, a), TextNode("A"), CloseTag(l)>> :
      l \in HeadingLevels, a \in {"", " id=\"s\""} }

HeadingFragments ==
  UNION { { Flatten(f) : f \in [1..n -> Headings] } : n \in 0..MaxHeadings }

\* html.replace(/<hN(\b[^>]*)>/g, '<hM$1>'): the attributes are kept.
ReplaceOpenTags(h, from, to) ==
  [k \in 1 .. Len(h) |->
     IF h[k][1] = "open" /\ h[k][2] = from THEN OpenTag(to, h[k][3]) ELSE h[k]]

\* html.replace(/<\/hN>/g, '</hM>')
ReplaceCloseTags(h, from, to) ==
  [k \in 1 .. Len(h) |->
     IF h[k][1] = "close" /\ h[k][2] = from THEN CloseTag(to) ELSE h[k]]

InitHeadings ==
  /\ headHtml \in HeadingFragments
  /\ headResult = headHtml
  /\ pcHead = "h4open"
  /\ IdleParser
  /\ IdlePasses
  /\ IdleConvert
  /\ IdleBatch
  /\ IdleCleanup
  /\ IdleIcons
  /\ IdleLists
  /\ IdleKv
  /\ IdleMerge
  /\ IdleQuadHeadings
  /\ IdleSkills
  /\ IdleWrappers
  /\ IdleHeader

PromoteH4Open ==
  /\ pcHead = "h4open"
  /\ headResult' = ReplaceOpenTags(headResult, 4, 3)
  /\ pcHead' = "h4close"
  /\ UNCHANGED <<notHeadings, headHtml>>

PromoteH4Close ==
  /\ pcHead = "h4close"
  /\ headResult' = ReplaceCloseTags(headResult, 4, 3)
  /\ pcHead' = "h3open"
  /\ UNCHANGED <<notHeadings, headHtml>>

PromoteH3Open ==
  /\ pcHead = "h3open"
  /\ headResult' = ReplaceOpenTags(headResult, 3, 2)
  /\ pcHead' = "h3close"
  /\ UNCHANGED <<notHeadings, headHtml>>

PromoteH3Close ==
  /\ pcHead = "h3close"
  /\ headResult' = ReplaceCloseTags(headResult, 3, 2)
  /\ pcHead' = "done"
  /\ UNCHANGED <<notHeadings, headHtml>>

NextHeadings ==
  \/ PromoteH4Open
  \/ PromoteH4Close
  \/ PromoteH3Open
  \/ PromoteH3Close

SpecHeadings == InitHeadings /\ [][NextHeadings]_vars

(***************************************************************************)
(* Claims about promoteHeadings                                            *)
(***************************************************************************)

\* C5: promoteHeadings keeps different heading levels different: an h4 ends
\* as h3 and an h3 as h2, two headings of different levels never end at the
\* same level, and no h4 survives.
C5_LevelsStayDistinct ==
  pcHead = "done" =>
    /\ Len(headResult) = Len(headHtml)
    /\ \A i \in 1 .. Len(headHtml) :
         /\ headHtml[i][1] = "open" /\ headHtml[i][2] = 4 => headResult[i][2] = 3
         /\ headHtml[i][1] = "open" /\ headHtml[i][2] = 3 => headResult[i][2] = 2
         /\ headResult[i][2] # 4
    /\ \A i, j \in 1 .. Len(headHtml) :
         (/\ headHtml[i][1] = "open" /\ headHtml[j][1] = "open"
          /\ headHtml[i][2] # headHtml[j][2]) => headResult[i][2] # headResult[j][2]

(***************************************************************************)
(* extractMetadata                                                         *)
(***************************************************************************)

\* The capture of /\\cmd\{([^}]+)\}/ matched at position i of s; <<>> when
\* the regex does not match there (the capture itself is never empty).
CommandMatchAt(s, cmd, i) ==
  IF ~(i + 1 < Len(s) /\ At(s, i) = cmd /\ At(s, i + 1) = "{") THEN <<>>
  ELSE LET arg == UpToClose(Substring(s, i + 2, Len(s))) IN
       IF arg = <<>> \/ ~(i + 2 + Len(arg) < Len(s)) THEN <<>> ELSE arg

\* latexContent.match(/\\cmd\{([^}]+)\}/): the capture of the first match,
\* <<>> for null.
CommandMatch(s, cmd) ==
  LET hits == { i \in 0 .. Len(s) - 1 : CommandMatchAt(s, cmd, i) # <<>> }
  IN IF hits = {} THEN <<>>
     ELSE CommandMatchAt(s, cmd, CHOOSE i \in hits : \A k \in hits : i <= k)

\* new Date().toISOString(): the date, "T", the time of day.
ToISOString(now) == <<now[1], "T", now[2]>>

\* s.split('T')[0]
RECURSIVE BeforeT(_)
BeforeT(s) ==
  IF s = <<>> \/ Head(s) = "T" THEN <<>> ELSE <<Head(s)>> \o BeforeT(Tail(s))

\* A title match that always takes the default.
ExtractMetadata_TitleIgnored(s, now) ==
  [title |-> <<"Untitled Document">>,
   author |-> IF CommandMatch(s, "\\author") # <<>>
                THEN CommandMatch(s, "\\author") ELSE <<"Unknown Author">>,
   date |-> IF CommandMatch(s, "\\date") # <<>>
              THEN CommandMatch(s, "\\date") ELSE BeforeT(ToISOString(now))]

ExtractMetadata(s, now) ==
  [title |-> IF CommandMatch(s, "\\title") # <<>>
               THEN CommandMatch(s, "\\title") ELSE <<"Untitled Document">>,
   author |-> IF CommandMatch(s, "\\author") # <<>>
                THEN CommandMatch(s, "\\author") ELSE <<"Unknown Author">>,
   date |-> IF CommandMatch(s, "\\date") # <<>>
              THEN CommandMatch(s, "\\date") ELSE BeforeT(ToISOString(now))]

(***************************************************************************)
(* convertLatexToHtml                                                      *)
(*                                                                         *)
(* pcConv is the line of converter.mjs that runs next, 76 after the        *)
(* return.  The HTML fragment is the list of the steps that produced it.   *)
(***************************************************************************)

\* The most \title, \author and \date commands in one source text.
MaxCommands == 2

MetadataCommands == {"\\title", "\\author", "\\date"}

\* Arguments: empty, flat, with a nested group.
CommandArgs == { <<>>, <<"Jane Doe">>, <<"J. Doe">>, <<"A", "{", "B", "}">> }

CommandTexts == { <<c, "{">> \o a \o <<"}">> : c \in MetadataCommands, a \in CommandArgs }

LatexSources ==
  UNION { { Flatten(f) : f \in [1..n -> CommandTexts] } : n \in 0..MaxCommands }

\* The moments a conversion can run at.
Clocks == { <<"2026-11-01", "09:00:00.000Z">>, <<"2027-01-02", "23:59:59.999Z">> }

\* The messages of the exceptions a step can throw.
Messages == { "parse error", "Cannot read properties of undefined" }

InitConvert ==
  /\ latexContent \in LatexSources
  /\ clock \in Clocks
  /\ html = <<>>
  /\ metadata = Null
  /\ thrown = Null
  /\ convResult = Null
  /\ pcConv = 38
  /\ IdleParser
  /\ IdlePasses
  /\ IdleHeadings
  /\ IdleBatch
  /\ IdleCleanup
  /\ IdleIcons
  /\ IdleLists
  /\ IdleKv
  /\ IdleMerge
  /\ IdleQuadHeadings
  /\ IdleSkills
  /\ IdleWrappers
  /\ IdleHeader

\* A statement that leaves the fragment alone.
Step(line, next) ==
  /\ pcConv = line
  /\ pcConv' = next
  /\ UNCHANGED <<notConvert, latexContent, clock, html, metadata, thrown, convResult>>

\* html = pass(html, ...)
RunPass(line, name) ==
  /\ pcConv = line
  /\ html' = Append(html, name)
  /\ pcConv' = line + 1
  /\ UNCHANGED <<notConvert, latexContent, clock, metadata, thrown, convResult>>

Parse == Step(38, 41)

RunSync == Step(41, 44)

ToHtml ==
  /\ pcConv = 44
  /\ html' = <<"toHtml">>
  /\ pcConv' = 47
  /\ UNCHANGED <<notConvert, latexContent, clock, metadata, thrown, convResult>>

ExtractMetadataCall ==
  /\ pcConv = 47
  /\ metadata' = Some(ExtractMetadata(latexContent, clock))
  /\ pcConv' = 50
  /\ UNCHANGED <<notConvert, latexContent, clock, html, thrown, convResult>>

ExtractMacroMatchesCall == Step(50, 53)

ProcessTitleBlock == RunPass(53, "processTitleBlock")

PromoteHeadings == RunPass(54, "promoteHeadings")

ProcessAbstract == RunPass(55, "processAbstract")

ReplaceMathPipes == RunPass(56, "replaceMathPipes")

ProcessContactHeader == RunPass(57, "processContactHeader")

ProcessTrioHeadings == RunPass(58, "processTrioHeadings")

\* The date-range merge run in the place of the quad-details pass.
ProcessQuadDetails_AfterMerge == RunPass(59, "mergeDateRanges")

ProcessQuadDetails == RunPass(59, "processQuadDetails")

MergeDateRanges == RunPass(60, "mergeDateRanges")

ProcessTechnicalSkills == RunPass(61, "processTechnicalSkills")

ProcessQuadHeadings == RunPass(62, "processQuadHeadings")

ProcessListMacros == RunPass(63, "processListMacros")

ProcessHeadingListMacros == RunPass(64, "processHeadingListMacros")

CleanupParagraphWrappers == RunPass(65, "cleanupParagraphWrappers")

ReplaceIconMacros == RunPass(66, "replaceIconMacros")

\* The last pass; the next statement is on line 70.
ApplyFinalCleanups ==
  /\ pcConv = 67
  /\ html' = Append(html, "applyFinalCleanups")
  /\ pcConv' = 70
  /\ UNCHANGED <<notConvert, latexContent, clock, metadata, thrown, convResult>>

\* const styledHtml = wrapInHtmlTemplate(html, metadata)
WrapInHtmlTemplate ==
  /\ pcConv = 70
  /\ html' = Append(html, "wrapInHtmlTemplate")
  /\ pcConv' = 72
  /\ UNCHANGED <<notConvert, latexContent, clock, metadata, thrown, convResult>>

\* return { html: styledHtml, metadata, success: true, error: null }
ReturnSuccess ==
  /\ pcConv = 72
  /\ convResult' = Some([html |-> Some(html), metadata |-> metadata,
                         success |-> TRUE, error |-> Null])
  /\ pcConv' = 76
  /\ UNCHANGED <<notConvert, latexContent, clock, html, metadata, thrown>>

\* A catch block that hands back what was built so far.
ThrowAndCatch_KeepsHtml ==
  /\ pcConv \in 38 .. 70
  /\ \E msg \in Messages :
       /\ thrown' = Some([line |-> pcConv, message |-> msg])
       /\ convResult' = Some([html |-> Some(html), metadata |-> metadata,
                              success |-> FALSE, error |-> Some(msg)])
  /\ html' = <<>>
  /\ metadata' = Null
  /\ pcConv' = 76
  /\ UNCHANGED <<notConvert, latexContent, clock>>

\* A statement of the try block throws an Error: the catch block returns
\* { html: null, metadata: null, success: false, error: error.message }, and
\* the locals of the call are gone.  thrown records the exception and the
\* line that threw it.
ThrowAndCatch ==
  /\ pcConv \in 38 .. 70
  /\ \E msg \in Messages :
       /\ thrown' = Some([line |-> pcConv, message |-> msg])
       /\ convResult' = Some([html |-> Null, metadata |-> Null,
                              success |-> FALSE, error |-> Some(msg)])
  /\ html' = <<>>
  /\ metadata' = Null
  /\ pcConv' = 76
  /\ UNCHANGED <<notConvert, latexContent, clock>>

NextConvert ==
  \/ Parse
  \/ RunSync
  \/ ToHtml
  \/ ExtractMetadataCall
  \/ ExtractMacroMatchesCall
  \/ ProcessTitleBlock
  \/ PromoteHeadings
  \/ ProcessAbstract
  \/ ReplaceMathPipes
  \/ ProcessContactHeader
  \/ ProcessTrioHeadings
  \/ ProcessQuadDetails
  \/ MergeDateRanges
  \/ ProcessTechnicalSkills
  \/ ProcessQuadHeadings
  \/ ProcessListMacros
  \/ ProcessHeadingListMacros
  \/ CleanupParagraphWrappers
  \/ ReplaceIconMacros
  \/ ApplyFinalCleanups
  \/ WrapInHtmlTemplate
  \/ ReturnSuccess
  \/ ThrowAndCatch

SpecConvert == InitConvert /\ [][NextConvert]_vars

(***************************************************************************)
(* Claims about convertLatexToHtml and extractMetadata                     *)
(***************************************************************************)

\* C6: convertLatexToHtml returns either success with html and metadata and
\* no error, or failure with neither html nor metadata and the message of the
\* exception; every exception gives the second shape, and html, when it is
\* returned, went through all the passes and the template.
C6_ResultShape ==
  /\ pcConv # 76 => convResult = Null
  /\ pcConv = 76 =>
       LET r == ValueOf(convResult) IN
       /\ \/ r.success /\ r.html # Null /\ r.metadata # Null /\ r.error = Null
          \/ ~r.success /\ r.html = Null /\ r.metadata = Null /\ r.error # Null
       /\ thrown = Null => r.success
       /\ thrown # Null =>
            /\ ~r.success /\ r.html = Null /\ r.metadata = Null
            /\ r.error = Some(ValueOf(thrown).message)
       /\ r.html # Null =>
            /\ Len(ValueOf(r.html)) = 17
            /\ ValueOf(r.html)[17] = "wrapInHtmlTemplate"

\* C6 witness: a pass threw after earlier passes had rewritten the fragment.
C6_Witness ==
  /\ pcConv = 76
  /\ thrown # Null
  /\ ValueOf(thrown).line = 60
  /\ ~ValueOf(convResult).success

\* The order of the passes the claim states.
ClaimedPassOrder ==
  << "processTitleBlock", "promoteHeadings", "processAbstract", "replaceMathPipes",
     "processContactHeader", "processTrioHeadings", "processQuadDetails",
     "mergeDateRanges", "processTechnicalSkills", "processQuadHeadings",
     "processListMacros", "processHeadingListMacros", "cleanupParagraphWrappers",
     "replaceIconMacros", "applyFinalCleanups" >>

\* C7: in a successful run the fifteen passes run once each in the stated
\* order; so passes 5-12 run before pass 13, passes 6 and 7 before pass 8, and
\* pass 14 after pass 5.
C7_PassOrder ==
  (pcConv = 76 /\ ValueOf(convResult).success) =>
    LET log == ValueOf(ValueOf(convResult).html)
        RunsOf(name) == { k \in 1 .. Len(log) : log[k] = name }
        Before(a, b) == \A i \in RunsOf(a) : \A j \in RunsOf(b) : i < j
    IN /\ \A n \in 1 .. 15 : Cardinality(RunsOf(ClaimedPassOrder[n])) = 1
       /\ \A n, m \in 1 .. 15 :
            n < m => Before(ClaimedPassOrder[n], ClaimedPassOrder[m])
       /\ \A n \in 5 .. 12 :
            Before(ClaimedPassOrder[n], "cleanupParagraphWrappers")
       /\ Before("processTrioHeadings", "mergeDateRanges")
       /\ Before("processQuadDetails", "mergeDateRanges")
       /\ Before("processContactHeader", "replaceIconMacros")

\* C7 witness: a run returned success.
C7_Witness ==
  /\ pcConv = 76
  /\ ValueOf(convResult).success
  /\ thrown = Null

\* The commands \cmd{ of the source.
CommandsAt(s, cmd) ==
  { i \in 0 .. Len(s) - 2 : At(s, i) = cmd /\ At(s, i + 1) = "{" }

\* Balanced braces, none nested in another.
FlatSource(s) ==
  /\ Balanced(s)
  /\ \A p \in 0 .. Len(s) - 1 : CountOf(s, 0, p, "{") - CountOf(s, 0, p, "}") <= 1

\* The argument of the command at i.
ArgumentAt(s, i) == Substring(s, i + 2, CloseOf(s, i + 1))

\* The argument of the first of the commands at the positions is, or else d.
FirstArgumentOr(s, is, d) ==
  IF is = {} THEN d ELSE ArgumentAt(s, CHOOSE i \in is : \A k \in is : i <= k)

NonEmptyCommandsAt(s, cmd) == { i \in CommandsAt(s, cmd) : ArgumentAt(s, i) # <<>> }

\* C10 as stated: each field is the flat argument of the first command of its
\* name when the command is present, and the default otherwise.
C10_FirstCommandOrDefault ==
  (metadata # Null /\ FlatSource(latexContent)) =>
    LET md == ValueOf(metadata) IN
    /\ md.title = FirstArgumentOr(latexContent, CommandsAt(latexContent, "\\title"),
                                  <<"Untitled Document">>)
    /\ md.author = FirstArgumentOr(latexContent, CommandsAt(latexContent, "\\author"),
                                   <<"Unknown Author">>)
    /\ md.date = FirstArgumentOr(latexContent, CommandsAt(latexContent, "\\date"),
                                 <<clock[1]>>)

\* C10 amended: for a source whose arguments are flat, each field is the
\* argument of the first command of its name that has a non-empty argument,
\* and the default when there is none (a command with an empty argument
\* counts as absent).
C10_FirstNonEmptyCommandOrDefault ==
  (metadata # Null /\ FlatSource(latexContent)) =>
    LET md == ValueOf(metadata) IN
    /\ md.title = FirstArgumentOr(latexContent,
                                  NonEmptyCommandsAt(latexContent, "\\title"),
                                  <<"Untitled Document">>)
    /\ md.author = FirstArgumentOr(latexContent,
                                   NonEmptyCommandsAt(latexContent, "\\author"),
                                   <<"Unknown Author">>)
    /\ md.date = FirstArgumentOr(latexContent,
                                 NonEmptyCommandsAt(latexContent, "\\date"),
                                 <<clock[1]>>)

\* C10 witness: \title{Jane Doe}\author{J. Doe} with no \date gave the title
\* Jane Doe, the author J. Doe and today's date.
C10_Witness ==
  /\ latexContent = <<"\\title", "{", "Jane Doe", "}", "\\author", "{", "J. Doe", "}">>
  /\ clock[1] = "2026-11-01"
  /\ metadata = Some([title |-> <<"Jane Doe">>, author |-> <<"J. Doe">>,
                      date |-> <<"2026-11-01">>])

(***************************************************************************)
(* main of the batch driver                                                *)
(*                                                                         *)
(* Reading a source file and writing its output, inside the try block,     *)
(* can throw and are caught.  The calls of the file system outside the try *)
(* block (creating the output directory, listing the LaTeX directory,      *)
(* writing the manifest) can throw too; nothing catches them, and the      *)
(* process ends with the status of an uncaught exception.                  *)
(***************************************************************************)

\* The most entries of the LaTeX directory.
MaxFiles == 3

\* What happens to a .tex file: it converts and is written, its conversion
\* returns success=false, reading it throws, writing its output throws.
Outcomes == {"ok", "convertFails", "readThrows", "writeThrows"}

\* An entry of the directory; its position in the listing is its name.
DirEntries ==
  { [ext |-> ".tex", outcome |-> o] : o \in Outcomes }
    \cup { [ext |-> ".md", outcome |-> "ok"] }

\* The positions, from k on, of the .tex entries of the listing, in order.
RECURSIVE FilterFrom(_, _)
FilterFrom(entries, k) ==
  IF k > Len(entries) THEN <<>>
  ELSE IF entries[k].ext = ".tex" THEN <<k>> \o FilterFrom(entries, k + 1)
  ELSE FilterFrom(entries, k + 1)

\* The entry manifest.push appends for file f.
ManifestEntry(f) ==
  [id |-> f, filename |-> <<f, ".tex">>, htmlPath |-> <<"converted-docs/", f, ".html">>]

\* The exit status of a Node process ended by an uncaught exception.
UncaughtExit(call) ==
  /\ uncaught' = Some(call)
  /\ exitCode' = Some(1)
  /\ pcMain' = "exited"

InitBatch ==
  /\ latexDirExists \in BOOLEAN
  /\ \E n \in 0 .. MaxFiles : dirEntries \in [1..n -> DirEntries]
  /\ files = <<>>
  /\ fileIdx = 0
  /\ manifest = <<>>
  /\ hasErrors = FALSE
  /\ writeCalls = {}
  /\ written = {}
  /\ manifestFile = Null
  /\ uncaught = Null
  /\ exitCode = Null
  /\ pcMain = "start"
  /\ IdleParser
  /\ IdlePasses
  /\ IdleHeadings
  /\ IdleConvert
  /\ IdleCleanup
  /\ IdleIcons
  /\ IdleLists
  /\ IdleKv
  /\ IdleMerge
  /\ IdleQuadHeadings
  /\ IdleSkills
  /\ IdleWrappers
  /\ IdleHeader

\* ensureDirectoryExists(CONFIG.outputDir)
EnsureOutputDir ==
  /\ pcMain = "start"
  /\ pcMain' = "checkDir"
  /\ UNCHANGED <<notBatch, uncaught, latexDirExists, dirEntries, files, fileIdx, manifest,
                 hasErrors, writeCalls, written, manifestFile, exitCode>>

\* mkdirSync throws.
EnsureOutputDirThrows ==
  /\ pcMain = "start"
  /\ UncaughtExit("mkdirSync")
  /\ UNCHANGED <<notBatch, latexDirExists, dirEntries, files, fileIdx, manifest,
                 hasErrors, writeCalls, written, manifestFile>>

\* The LaTeX directory is missing: process.exit(1).
LatexDirMissing ==
  /\ pcMain = "checkDir"
  /\ ~latexDirExists
  /\ exitCode' = Some(1)
  /\ pcMain' = "exited"
  /\ UNCHANGED <<notBatch, uncaught, latexDirExists, dirEntries, files, fileIdx, manifest,
                 hasErrors, writeCalls, written, manifestFile>>

\* readdirSync(...).filter(extname(file) === '.tex')
ListTexFiles ==
  /\ pcMain = "checkDir"
  /\ latexDirExists
  /\ files' = FilterFrom(dirEntries, 1)
  /\ pcMain' = "checkEmpty"
  /\ UNCHANGED <<notBatch, uncaught, latexDirExists, dirEntries, fileIdx, manifest,
                 hasErrors, writeCalls, written, manifestFile, exitCode>>

\* readdirSync throws (the path exists and cannot be listed).
ListTexFilesThrows ==
  /\ pcMain = "checkDir"
  /\ latexDirExists
  /\ UncaughtExit("readdirSync")
  /\ UNCHANGED <<notBatch, latexDirExists, dirEntries, files, fileIdx, manifest,
                 hasErrors, writeCalls, written, manifestFile>>

\* No .tex file, and writing the empty manifest throws.
NoTexFilesThrows ==
  /\ pcMain = "checkEmpty"
  /\ Len(files) = 0
  /\ UncaughtExit("writeFileSync")
  /\ UNCHANGED <<notBatch, latexDirExists, dirEntries, files, fileIdx, manifest,
                 hasErrors, writeCalls, written, manifestFile>>

\* No .tex file: an empty manifest is written, process.exit(0).
NoTexFiles ==
  /\ pcMain = "checkEmpty"
  /\ Len(files) = 0
  /\ manifestFile' = Some(<<>>)
  /\ exitCode' = Some(0)
  /\ pcMain' = "exited"
  /\ UNCHANGED <<notBatch, uncaught, latexDirExists, dirEntries, files, fileIdx, manifest,
                 hasErrors, writeCalls, written>>

\* const manifest = []; let hasErrors = false; the loop starts.
StartLoop ==
  /\ pcMain = "checkEmpty"
  /\ Len(files) # 0
  /\ manifest' = <<>>
  /\ hasErrors' = FALSE
  /\ fileIdx' = 1
  /\ pcMain' = "loop"
  /\ UNCHANGED <<notBatch, uncaught, latexDirExists, dirEntries, files, writeCalls, written,
                 manifestFile, exitCode>>

InLoop(outcome) ==
  /\ pcMain = "loop"
  /\ fileIdx <= Len(files)
  /\ dirEntries[files[fileIdx]].outcome = outcome

\* A success that forgets the failures before it.
FileConverted_ClearsErrors ==
  /\ InLoop("ok")
  /\ writeCalls' = writeCalls \cup {files[fileIdx]}
  /\ written' = written \cup {files[fileIdx]}
  /\ manifest' = Append(manifest, ManifestEntry(files[fileIdx]))
  /\ hasErrors' = FALSE
  /\ fileIdx' = fileIdx + 1
  /\ UNCHANGED <<notBatch, uncaught, latexDirExists, dirEntries, files, manifestFile,
                 exitCode, pcMain>>

\* result.success: the output is written and the manifest entry appended.
FileConverted ==
  /\ InLoop("ok")
  /\ writeCalls' = writeCalls \cup {files[fileIdx]}
  /\ written' = written \cup {files[fileIdx]}
  /\ manifest' = Append(manifest, ManifestEntry(files[fileIdx]))
  /\ fileIdx' = fileIdx + 1
  /\ UNCHANGED <<notBatch, uncaught, latexDirExists, dirEntries, files, hasErrors,
                 manifestFile, exitCode, pcMain>>

\* result.success is false.
FileConversionFailed ==
  /\ InLoop("convertFails")
  /\ hasErrors' = TRUE
  /\ fileIdx' = fileIdx + 1
  /\ UNCHANGED <<notBatch, uncaught, latexDirExists, dirEntries, files, manifest, writeCalls,
                 written, manifestFile, exitCode, pcMain>>

\* readFileSync throws: the catch block.
FileReadThrows ==
  /\ InLoop("readThrows")
  /\ hasErrors' = TRUE
  /\ fileIdx' = fileIdx + 1
  /\ UNCHANGED <<notBatch, uncaught, latexDirExists, dirEntries, files, manifest, writeCalls,
                 written, manifestFile, exitCode, pcMain>>

\* The manifest entry appended before the write that throws.
FileWriteThrows_EntryFirst ==
  /\ InLoop("writeThrows")
  /\ writeCalls' = writeCalls \cup {files[fileIdx]}
  /\ manifest' = Append(manifest, ManifestEntry(files[fileIdx]))
  /\ hasErrors' = TRUE
  /\ fileIdx' = fileIdx + 1
  /\ UNCHANGED <<notBatch, uncaught, latexDirExists, dirEntries, files, written,
                 manifestFile, exitCode, pcMain>>

\* result.success, and writeFileSync(outputPath, result.html) throws: the
\* catch block, with manifest.push not reached.
FileWriteThrows ==
  /\ InLoop("writeThrows")
  /\ writeCalls' = writeCalls \cup {files[fileIdx]}
  /\ hasErrors' = TRUE
  /\ fileIdx' = fileIdx + 1
  /\ UNCHANGED <<notBatch, uncaught, latexDirExists, dirEntries, files, manifest, written,
                 manifestFile, exitCode, pcMain>>

\* The manifest written with the last file still to process.
WriteManifest_Early ==
  /\ pcMain = "loop"
  /\ fileIdx >= Len(files)
  /\ manifestFile' = Some(manifest)
  /\ pcMain' = "exit"
  /\ UNCHANGED <<notBatch, uncaught, latexDirExists, dirEntries, files, fileIdx, manifest,
                 hasErrors, writeCalls, written, exitCode>>

\* After the loop: writeFileSync(CONFIG.manifestFile, ...).
WriteManifest ==
  /\ pcMain = "loop"
  /\ fileIdx > Len(files)
  /\ manifestFile' = Some(manifest)
  /\ pcMain' = "exit"
  /\ UNCHANGED <<notBatch, uncaught, latexDirExists, dirEntries, files, fileIdx, manifest,
                 hasErrors, writeCalls, written, exitCode>>

\* After the loop, and writing the manifest throws.
WriteManifestThrows ==
  /\ pcMain = "loop"
  /\ fileIdx > Len(files)
  /\ UncaughtExit("writeFileSync")
  /\ UNCHANGED <<notBatch, latexDirExists, dirEntries, files, fileIdx, manifest,
                 hasErrors, writeCalls, written, manifestFile>>

ExitWithErrors ==
  /\ pcMain = "exit"
  /\ hasErrors
  /\ exitCode' = Some(1)
  /\ pcMain' = "exited"
  /\ UNCHANGED <<notBatch, uncaught, latexDirExists, dirEntries, files, fileIdx, manifest,
                 hasErrors, writeCalls, written, manifestFile>>

ExitSuccess ==
  /\ pcMain = "exit"
  /\ ~hasErrors
  /\ exitCode' = Some(0)
  /\ pcMain' = "exited"
  /\ UNCHANGED <<notBatch, uncaught, latexDirExists, dirEntries, files, fileIdx, manifest,
                 hasErrors, writeCalls, written, manifestFile>>

NextBatch ==
  \/ EnsureOutputDir
  \/ EnsureOutputDirThrows
  \/ LatexDirMissing
  \/ ListTexFiles
  \/ ListTexFilesThrows
  \/ NoTexFiles
  \/ NoTexFilesThrows
  \/ StartLoop
  \/ FileConverted
  \/ FileConversionFailed
  \/ FileReadThrows
  \/ FileWriteThrows
  \/ WriteManifest
  \/ WriteManifestThrows
  \/ ExitWithErrors
  \/ ExitSuccess

SpecBatch == InitBatch /\ [][NextBatch]_vars

(***************************************************************************)
(* Claims about the batch driver                                           *)
(***************************************************************************)

\* The files the loop is done with.
Processed == { files[k] : k \in 1 .. Min(fileIdx - 1, Len(files)) }

\* The files that failed: the conversion returned success=false, or reading
\* or writing threw.
FailedFiles == { f \in Processed : dirEntries[f].outcome # "ok" }

\* The conversion of file f returned success=true.
ConversionSucceeded(f) == dirEntries[f].outcome \in {"ok", "writeThrows"}

\* The conversion of file f returned success=false.
ConversionFailed(f) == dirEntries[f].outcome = "convertFails"

InManifest(f) == \E n \in 1 .. Len(manifest) : manifest[n].id = f

\* A failure, once recorded, stays recorded while later files are processed.
FailureStaysRecorded ==
  pcMain \in {"loop", "exit", "exited"} => (FailedFiles # {} => hasErrors)

\* The run ended with status 0 only with no .tex file or every file converted.
ZeroOnlyWhenAllConverted ==
  (pcMain = "exited" /\ exitCode = Some(0)) =>
    (Len(files) = 0 \/ \A k \in 1 .. Len(files) : files[k] \in written)

\* C8 as stated: the run exits with a nonzero status exactly when the LaTeX
\* directory is missing or some file failed, with 0 only when there is no
\* .tex file or every file converted; a failure, once recorded, stays
\* recorded while the later files are processed.
C8_FailClosed ==
  /\ pcMain = "exited" =>
       (ValueOf(exitCode) # 0 <=> (~latexDirExists \/ FailedFiles # {}))
  /\ ZeroOnlyWhenAllConverted
  /\ FailureStaysRecorded

\* C8 amended: the run exits with a nonzero status exactly when the LaTeX
\* directory is missing, some file failed, or a call of the file system
\* outside the per-file try block threw; the rest as stated.
C8_FailClosedOrUncaught ==
  /\ pcMain = "exited" =>
       (ValueOf(exitCode) # 0 <=>
          (~latexDirExists \/ FailedFiles # {} \/ uncaught # Null))
  /\ ZeroOnlyWhenAllConverted
  /\ FailureStaysRecorded

\* C8 witness: a file failed, a later file converted, nothing was thrown
\* outside the try block, and the run exited with status 1.
C8_Witness ==
  /\ pcMain = "exited"
  /\ exitCode = Some(1)
  /\ uncaught = Null
  /\ \E f \in FailedFiles : \E g \in written : f < g

\* C9 as stated: a file's output is written and its manifest entry appended
\* exactly when its conversion returned success=true.
C9_OutputIffConverted ==
  \A f \in Processed :
    (f \in written /\ InManifest(f)) <=> ConversionSucceeded(f)

\* C9 amended: writing a file's output is attempted exactly when its
\* conversion returned success=true, and the output is written and the
\* manifest entry appended exactly when, moreover, that write did not throw;
\* a file whose conversion failed gets neither an output nor an entry.
C9_OutputIffConvertedAndWritten ==
  /\ \A f \in Processed :
       /\ f \in writeCalls <=> ConversionSucceeded(f)
       /\ f \in written <=> dirEntries[f].outcome = "ok"
       /\ InManifest(f) <=> dirEntries[f].outcome = "ok"
       /\ ConversionFailed(f) => (f \notin writeCalls /\ f \notin written /\ ~InManifest(f))
  /\ \A f \in 1 .. Len(dirEntries) :
       f \notin Processed => (f \notin writeCalls /\ f \notin written /\ ~InManifest(f))

\* C9 witness: of three files one converted, the conversion of one failed and
\* the write of one threw; only the first has an output and an entry.
C9_Witness ==
  /\ pcMain = "exited"
  /\ \E f, g, h \in Processed :
       /\ dirEntries[f].outcome = "ok" /\ f \in written /\ InManifest(f)
       /\ dirEntries[g].outcome = "convertFails" /\ g \notin written
       /\ dirEntries[h].outcome = "writeThrows" /\ h \in writeCalls
       /\ ~InManifest(h)
  /\ Len(manifest) = 1

(***************************************************************************)
(* applyFinalCleanups, after processQuadDetails                            *)
(*                                                                         *)
(* An opening anchor tag is the token <a href=" (or its pieces "<a " and   *)
(* " href=\"" around a class attribute), the tokens of the URL, the token  *)
(* of the closing quote, attribute tokens, and the token >.  In the        *)
(* fragments here a quote only occurs as the quote token or inside an      *)
(* attribute token that follows a closed href.                             *)
(***************************************************************************)

\* The most anchors of a fragment.
MaxAnchors == 2

AnchorOpen == "<a href=\""
Quote == "\""
TargetBlank == " target=\"_blank\" rel=\"noopener noreferrer\""
HrefClass == "class=\"href\""
UlineMarker == "<span class=\"macro macro-uline\"></span>"
Schemes == {"https://", "http://"}

\* The tokens whose last character is a digit, whose first is a letter.
EndsWithDigit(tok) == tok \in {"3", "5", "9", "2020", "2021", "2023"}
StartsWithLetter(tok) ==
  tok \in {"A", "L", "o", "x", "Dev", "Lead", "Intern", "Org", "Present", "Source Code"}

\* Every occurrence of the token tok removed.
RECURSIVE RemoveToken(_, _)
RemoveToken(h, tok) ==
  IF h = <<>> THEN <<>>
  ELSE IF Head(h) = tok THEN RemoveToken(Tail(h), tok)
  ELSE <<Head(h)>> \o RemoveToken(Tail(h), tok)

\* .replace(/(\d+)%([a-zA-Z])/g, '$1% $2')
RECURSIVE FixPercentSpacing(_)
FixPercentSpacing(h) ==
  IF h = <<>> THEN <<>>
  ELSE IF Len(h) >= 3 /\ EndsWithDigit(h[1]) /\ h[2] = "%" /\ StartsWithLetter(h[3])
       THEN <<h[1], "%", " ", h[3]>> \o FixPercentSpacing(Substring(h, 3, Len(h)))
       ELSE <<Head(h)>> \o FixPercentSpacing(Tail(h))

\* .replace(/<span class="macro macro-uline"><\/span>Source Code<\/a>/g, '')
RECURSIVE RemoveUlineArtifacts(_)
RemoveUlineArtifacts(h) ==
  IF h = <<>> THEN <<>>
  ELSE IF Len(h) >= 3 /\ h[1] = UlineMarker /\ h[2] = "Source Code" /\ h[3] = "</a>"
       THEN RemoveUlineArtifacts(Substring(h, 3, Len(h)))
       ELSE <<Head(h)>> \o RemoveUlineArtifacts(Tail(h))

\* .replace(/class="href"/g, '')
RemoveHrefClass(h) == RemoveToken(h, HrefClass)

\* .replace(/<a  href=/g, '<a href=')
RECURSIVE FixDoubleSpace(_)
FixDoubleSpace(h) ==
  IF h = <<>> THEN <<>>
  ELSE IF Len(h) >= 2 /\ h[1] = "<a " /\ h[2] = " href=\""
       THEN <<AnchorOpen>> \o FixDoubleSpace(Substring(h, 2, Len(h)))
       ELSE <<Head(h)>> \o FixDoubleSpace(Tail(h))

\* The tokens of h before the first quote token, all of h when there is none.
RECURSIVE UpToQuote(_)
UpToQuote(h) ==
  IF h = <<>> \/ Head(h) = Quote THEN <<>> ELSE <<Head(h)>> \o UpToQuote(Tail(h))

\* The tokens from <a href=" through the closing quote when
\* /<a href="(https?:\/\/[^"]+)"/ matches at the start of h, <<>> otherwise.
ExternalHref(h) ==
  IF ~(Len(h) >= 4 /\ h[1] = AnchorOpen /\ h[2] \in Schemes) THEN <<>>
  ELSE LET rest == UpToQuote(Substring(h, 2, Len(h))) IN
       IF rest = <<>> \/ 2 + Len(rest) >= Len(h) THEN <<>>
       ELSE Substring(h, 0, 2 + Len(rest) + 1)

\* .replace(/<a href="(https?:\/\/[^"]+)"/g,
\*          '<a href="$1" target="_blank" rel="noopener noreferrer"')
RECURSIVE AddTargetBlank(_)
AddTargetBlank(h) ==
  IF h = <<>> THEN <<>>
  ELSE LET m == ExternalHref(h) IN
       IF m # <<>>
       THEN m \o <<TargetBlank>> \o AddTargetBlank(Substring(h, Len(m), Len(h)))
       ELSE <<Head(h)>> \o AddTargetBlank(Tail(h))

\* The duplicates kept.
DedupeTargetBlank_Kept(h) == h

\* .replace(/target="_blank" rel="noopener noreferrer" target="_blank"
\*          rel="noopener noreferrer"/g, 'target="_blank" rel="noopener noreferrer"')
RECURSIVE DedupeTargetBlank(_)
DedupeTargetBlank(h) ==
  IF h = <<>> THEN <<>>
  ELSE IF Len(h) >= 2 /\ h[1] = TargetBlank /\ h[2] = TargetBlank
       THEN <<TargetBlank>> \o DedupeTargetBlank(Substring(h, 2, Len(h)))
       ELSE <<Head(h)>> \o DedupeTargetBlank(Tail(h))

(* The inputs *)

\* The URL and the display text of \href{U}{\uline{T}}.
Urls == { <<"https://", "x">>, <<"http://", "x", "/", "%", "C", "3", "%", "A", "9">> }
DisplayTexts == { <<"L">>, <<"Dev", " ", "Lead">> }

HrefUline(u, t) ==
  <<"\\href", "{">> \o u \o <<"}", "{", "\\uline", "{">> \o t \o <<"}", "}">>

\* The anchors of a fragment: without the attribute pair, as hrefToAnchor
\* emits it, as the renderer emits it (with a class, here already removed
\* or not), a local link, the pair after another attribute, and the
\* leftover of an underlined link.
Anchors ==
  { <<AnchorOpen, "https://", "x", Quote, ">", "L", "</a>">>,
    HrefToAnchor(<<"\\href", "{", "http://", "x", "}", "{", "L", "}">>, FALSE),
    <<"<a ", HrefClass, " href=\"", "https://", "x", Quote, ">", "5", "%", "o", "</a>">>,
    <<AnchorOpen, "#", "x", Quote, ">", "L", "</a>">>,
    <<AnchorOpen, "https://", "x", Quote, " title=\"t\"", TargetBlank, ">", "L", "</a>">>,
    <<AnchorOpen, "https://", "x", Quote, ">", UlineMarker, "Source Code", "</a>">> }

AnchorFragments ==
  UNION { { Flatten(f) : f \in [1..n -> Anchors] } : n \in 0 .. MaxAnchors }


\* processQuadDetails(h, ts) as one call: each marker the regex matches, up
\* to the next terminator, is replaced by the block of the next tuple, or
\* kept when the tuples are used up.
RECURSIVE ProcessQuadDetailsPass(_, _)
ProcessQuadDetailsPass(h, ts) ==
  IF h = <<>> THEN <<>>
  ELSE IF /\ Head(h) = QuadDetailsMarker
          /\ \E t \in 2 .. Len(h) : IsTerminator(h[t])
       THEN LET e == CHOOSE t \in 2 .. Len(h) :
                       /\ IsTerminator(h[t])
                       /\ \A u \in 2 .. t - 1 : ~IsTerminator(h[u])
                m == Substring(h, 0, e - 1)
            IN (IF ts = <<>> THEN m ELSE RenderQuadDetails(Head(ts)))
                 \o ProcessQuadDetailsPass(Substring(h, e - 1, Len(h)),
                                           IF ts = <<>> THEN <<>> ELSE Tail(ts))
       ELSE <<Head(h)>> \o ProcessQuadDetailsPass(Tail(h), ts)

\* The tuple of \resumeQuadHeadingDetails{\href{U}{\uline{T}}}{2023 -- Present}{Dev}.
QuadTuple(u, t) ==
  TupleOf("processQuadDetails",
          <<HrefUline(u, t), <<"2023", " ", "--", " ", "Present">>, <<"Dev">>>>)

InitCleanup ==
  /\ \/ /\ \E u \in Urls, t \in DisplayTexts : quadArgs = Some(<<u, t>>)
        /\ cleanIn = <<"<p>", QuadDetailsMarker, "text", "</p>">>
        /\ pcClean = 160
     \/ /\ quadArgs = Null
        /\ cleanIn \in AnchorFragments
        /\ pcClean = 327
  /\ cleanHtml = cleanIn
  /\ cleanFirst = Null
  /\ cleanRound = 1
  /\ IdleParser
  /\ IdlePasses
  /\ IdleHeadings
  /\ IdleConvert
  /\ IdleBatch
  /\ IdleIcons
  /\ IdleLists
  /\ IdleKv
  /\ IdleMerge
  /\ IdleQuadHeadings
  /\ IdleSkills
  /\ IdleWrappers
  /\ IdleHeader

\* html = processQuadDetails(html, quadDetailsMatches)
ProcessQuadDetailsCall ==
  /\ pcClean = 160
  /\ cleanHtml' = ProcessQuadDetailsPass(
                    cleanHtml, <<QuadTuple(ValueOf(quadArgs)[1], ValueOf(quadArgs)[2])>>)
  /\ pcClean' = 327
  /\ UNCHANGED <<notCleanup, quadArgs, cleanIn, cleanFirst, cleanRound>>

\* One .replace of applyFinalCleanups.
CleanupStep(line, result, next) ==
  /\ pcClean = line
  /\ cleanHtml' = result
  /\ pcClean' = next
  /\ UNCHANGED <<notCleanup, quadArgs, cleanIn, cleanFirst, cleanRound>>

FixPercentSpacingStep == CleanupStep(327, FixPercentSpacing(cleanHtml), 329)

RemoveUlineArtifactsStep == CleanupStep(329, RemoveUlineArtifacts(cleanHtml), 331)

RemoveHrefClassStep == CleanupStep(331, RemoveHrefClass(cleanHtml), 333)

FixDoubleSpaceStep == CleanupStep(333, FixDoubleSpace(cleanHtml), 336)

AddTargetBlankStep == CleanupStep(336, AddTargetBlank(cleanHtml), 341)

DedupeTargetBlankStep == CleanupStep(341, DedupeTargetBlank(cleanHtml), 345)

\* The pass applied to its own output.
ApplyFinalCleanupsAgain ==
  /\ pcClean = 345
  /\ cleanRound = 1
  /\ cleanFirst' = Some(cleanHtml)
  /\ cleanRound' = 2
  /\ pcClean' = 327
  /\ UNCHANGED <<notCleanup, quadArgs, cleanIn, cleanHtml>>

NextCleanup ==
  \/ ProcessQuadDetailsCall
  \/ FixPercentSpacingStep
  \/ RemoveUlineArtifactsStep
  \/ RemoveHrefClassStep
  \/ FixDoubleSpaceStep
  \/ AddTargetBlankStep
  \/ DedupeTargetBlankStep
  \/ ApplyFinalCleanupsAgain

SpecCleanup == InitCleanup /\ [][NextCleanup]_vars

(***************************************************************************)
(* Claims about applyFinalCleanups                                         *)
(***************************************************************************)

\* The positions of the opening anchor tags of h, in order.
RECURSIVE AnchorsFrom(_, _)
AnchorsFrom(h, p) ==
  IF p >= Len(h) THEN <<>>
  ELSE IF At(h, p) \in {AnchorOpen, "<a "} THEN <<p>> \o AnchorsFrom(h, p + 1)
  ELSE AnchorsFrom(h, p + 1)

\* The tokens of h from position p up to the first token tok, tok left out.
RECURSIVE Until(_, _, _)
Until(h, p, tok) ==
  IF p >= Len(h) \/ At(h, p) = tok THEN <<>> ELSE <<At(h, p)>> \o Until(h, p + 1, tok)

\* The opening tag at p, its href, and what it encloses.
TagAt(h, p) == Until(h, p, ">")
HrefAt(h, p) == Until(h, p + 1, Quote)
EnclosedAt(h, p) == Until(h, p + Len(TagAt(h, p)) + 1, "</a>")

IsExternal(h, p) == At(h, p) = AnchorOpen /\ At(h, p + 1) \in Schemes

PairCount(tag) == Cardinality({ n \in 1 .. Len(tag) : tag[n] = TargetBlank })

\* The pair directly after the href of the tag, and nowhere else in it.
PairAfterHref(tag) ==
  /\ PairCount(tag) = 1
  /\ \E n \in 2 .. Len(tag) : tag[n] = TargetBlank /\ tag[n - 1] = Quote
  /\ Cardinality({ n \in 1 .. Len(tag) : tag[n] = Quote }) = 1

\* C11: the block of a tuple whose first argument is \href{U}{\uline{T}},
\* after applyFinalCleanups, holds an anchor with href U, the display text T
\* in bold and target="_blank", and no \uline or \href token.
C11_QuadAnchor ==
  (quadArgs # Null /\ pcClean = 345) =>
    LET U == ValueOf(quadArgs)[1]
        T == ValueOf(quadArgs)[2]
        as == AnchorsFrom(cleanHtml, 0)
    IN /\ \E k \in 1 .. Len(as) :
            /\ HrefAt(cleanHtml, as[k]) = U
            /\ EnclosedAt(cleanHtml, as[k]) = Bold(T)
            /\ PairCount(TagAt(cleanHtml, as[k])) >= 1
       /\ \A n \in 1 .. Len(cleanHtml) : cleanHtml[n] \notin {"\\uline", "\\href"}

MaxIconTokens == 4

MacroOpen == "<span class=\"macro macro-"
MacroClose == "\"></span>"
IconOpen == "<i class=\""
IconClose == "\"></i>"

\* The names /fa\w+/ matches, among the names of the fragments.
IsIconName(name) == name \in {"faGithub", "faEnvelope", "faMobile", "faStar"}

\* ICON_MAP[macro] || 'fas fa-circle'
IconClass(macro) ==
  CASE macro = "faLinkedin" -> "fab fa-linkedin"
    [] macro = "faGithub" -> "fab fa-github"
    [] macro = "faEnvelope" -> "fas fa-envelope"
    [] macro = "faMobile" -> "fas fa-mobile"
    [] OTHER -> "fas fa-circle"

\* Only the spans of the names ICON_MAP holds replaced.
RECURSIVE ReplaceIconMacrosIn_MappedOnly(_)
ReplaceIconMacrosIn_MappedOnly(h) ==
  IF h = <<>> THEN <<>>
  ELSE IF /\ Len(h) >= 3 /\ h[1] = MacroOpen /\ IsIconName(h[2]) /\ h[3] = MacroClose
          /\ IconClass(h[2]) # "fas fa-circle"
       THEN <<IconOpen, IconClass(h[2]), IconClose>>
              \o ReplaceIconMacrosIn_MappedOnly(Substring(h, 3, Len(h)))
       ELSE <<Head(h)>> \o ReplaceIconMacrosIn_MappedOnly(Tail(h))

\* replaceIconMacros(html)
RECURSIVE ReplaceIconMacrosIn(_)
ReplaceIconMacrosIn(h) ==
  IF h = <<>> THEN <<>>
  ELSE IF Len(h) >= 3 /\ h[1] = MacroOpen /\ IsIconName(h[2]) /\ h[3] = MacroClose
       THEN <<IconOpen, IconClass(h[2]), IconClose>>
              \o ReplaceIconMacrosIn(Substring(h, 3, Len(h)))
       ELSE <<Head(h)>> \o ReplaceIconMacrosIn(Tail(h))

\* inner.replace(/\n/g, ' ')
ReplaceNewlines(h) == [n \in 1 .. Len(h) |-> IF h[n] = "\n" THEN " " ELSE h[n]]

\* text.replace(/\s{2,}/g, ' ')
RECURSIVE CollapseRuns(_)
CollapseRuns(h) ==
  IF h = <<>> THEN <<>>
  ELSE IF Len(h) >= 2 /\ IsSpace(h[1]) /\ IsSpace(h[2])
       THEN <<" ">> \o CollapseRuns(TrimStart(h))
       ELSE <<Head(h)>> \o CollapseRuns(Tail(h))

\* The phone numbers of the fragments: tokens of [+\d\s\-]+.
IsPhone(tok) == tok \in {"+1 555"}

\* primaryClean.replace(/(<i class="fas fa-(?:mobile|mobile-alt|phone)"><\/i>)
\*                       \s*([+\d\s\-]+)/g, '<span class="contact-mobile">$1 $2</span>')
RECURSIVE WrapMobile(_)
WrapMobile(h) ==
  IF h = <<>> THEN <<>>
  ELSE IF /\ Len(h) >= 4 /\ h[1] = IconOpen /\ h[3] = IconClose
          /\ h[2] \in {"fas fa-mobile", "fas fa-mobile-alt", "fas fa-phone"}
          /\ LET rest == TrimStart(Substring(h, 3, Len(h))) IN
             rest # <<>> /\ IsPhone(Head(rest))
       THEN LET rest == TrimStart(Substring(h, 3, Len(h))) IN
            <<"<span class=\"contact-mobile\">", h[1], h[2], h[3], " ", Head(rest),
              "</span>">> \o WrapMobile(Tail(rest))
       ELSE <<Head(h)>> \o WrapMobile(Tail(h))

\* The callback of processContactHeader for an inner text with no name span,
\* no line break, no column specification and no &#x26;: the name is empty,
\* all of the text is the primary group and the layout is centered.
ContactBlock(inner) ==
  LET innerClean == ReplaceIconMacrosIn(
                      Trim(CollapseRuns(RemoveToken(ReplaceNewlines(inner), UlineMarker))))
      primaryClean == WrapMobile(Trim(innerClean))
  IN <<"\n<div class=\"contact centered\">\n  <div class=\"contact-left\">\n    <div class=\"contact-name\">",
       "</div>\n    <div class=\"contact-links\">">>
       \o primaryClean
       \o <<"</div>\n  </div>\n  ", "\n</div>">>

(* The inputs *)

IconTokens == {MacroOpen, MacroClose, "faGithub", "faStar", "uline"}

IconFragments == UNION { [1..n -> IconTokens] : n \in 0 .. MaxIconTokens }

\* The inner text of the contact table, when the document has one.
ContactInners ==
  { <<MacroOpen, "faEnvelope", MacroClose, " ", "mail">>,
    <<MacroOpen, "faMobile", MacroClose, " ", " ", "+1 555">>,
    <<UlineMarker, MacroOpen, "faGithub", MacroClose, "\n", "git">> }

InitIcons ==
  /\ contactInner \in {Null} \cup { Some(c) : c \in ContactInners }
  /\ iconIn \in IconFragments
  /\ iconHtml =
       IF contactInner = Null THEN iconIn
       ELSE <<"<div class=\"environment tabular*\">">> \o ValueOf(contactInner)
              \o <<"</div>", "<h2>">> \o iconIn
  /\ iconAgain = Null
  /\ pcIcon = 57
  /\ IdleParser
  /\ IdlePasses
  /\ IdleHeadings
  /\ IdleConvert
  /\ IdleBatch
  /\ IdleCleanup
  /\ IdleLists
  /\ IdleKv
  /\ IdleMerge
  /\ IdleQuadHeadings
  /\ IdleSkills
  /\ IdleWrappers
  /\ IdleHeader

\* html = processContactHeader(html): the table before the first <h2> is
\* replaced by the contact block; without a table nothing changes.
ProcessContactHeaderCall ==
  /\ pcIcon = 57
  /\ iconHtml' = IF contactInner = Null THEN iconHtml
                 ELSE ContactBlock(ValueOf(contactInner)) \o <<"<h2>">> \o iconIn
  /\ pcIcon' = 66
  /\ UNCHANGED <<notIcons, contactInner, iconIn, iconAgain>>

\* html = replaceIconMacros(html)
ReplaceIconMacrosCall ==
  /\ pcIcon = 66
  /\ iconHtml' = ReplaceIconMacrosIn(iconHtml)
  /\ pcIcon' = 67
  /\ UNCHANGED <<notIcons, contactInner, iconIn, iconAgain>>

\* The pass applied to its own output.
ReplaceIconMacrosAgain ==
  /\ pcIcon = 67
  /\ iconAgain = Null
  /\ iconAgain' = Some(ReplaceIconMacrosIn(iconHtml))
  /\ UNCHANGED <<notIcons, contactInner, iconIn, iconHtml, pcIcon>>

NextIcons ==
  \/ ProcessContactHeaderCall
  \/ ReplaceIconMacrosCall
  \/ ReplaceIconMacrosAgain

SpecIcons == InitIcons /\ [][NextIcons]_vars

\* The icon spans of h.
IconSpans(h) ==
  { p \in 0 .. Len(h) - 3 :
      At(h, p) = MacroOpen /\ IsIconName(At(h, p + 1)) /\ At(h, p + 2) = MacroClose }

\* C13: the output of replaceIconMacros holds no icon span and the pass
\* applied to it returns it unchanged, also when processContactHeader has
\* applied the pass to the contact block before.
C13_IconsIdempotent ==
  /\ pcIcon = 67 => IconSpans(iconHtml) = {}
  /\ iconAgain # Null => ValueOf(iconAgain) = iconHtml

\* C13 witness: the pass ran on the contact block and on the whole document,
\* replaced an icon span in each, and ran once more.
C13_Witness ==
  /\ contactInner # Null
  /\ IconSpans(iconIn) # {}
  /\ iconAgain # Null
  /\ \E p \in 0 .. Len(iconHtml) - 1 : At(iconHtml, p) = "fas fa-circle"

(***************************************************************************)
(* processListMacros                                                       *)
(***************************************************************************)

\* The most chunks of a fragment.
MaxListChunks == 5

\* LIST_MARKERS
ListStart == "<span class=\"macro macro-resumeItemListStart\"></span>"
ListEnd == "<span class=\"macro macro-resumeItemListEnd\"></span>"
ListItem == "<span class=\"macro macro-resumeItem\"></span>"

\* result.indexOf(tok, from): the first position at or after from, -1 if none.
IndexOf(h, tok, from) ==
  LET hits == { p \in from .. Len(h) - 1 : At(h, p) = tok } IN
  IF hits = {} THEN -1 ELSE CHOOSE p \in hits : \A q \in hits : p <= q

\* inner.split(LIST_MARKERS.item)
RECURSIVE Split(_, _)
Split(s, sep) ==
  LET i == IndexOf(s, sep, 0) IN
  IF i = -1 THEN <<s>>
  ELSE <<Substring(s, 0, i)>> \o Split(Substring(s, i + 1, Len(s)), sep)

\* The empty parts kept as empty items.
RECURSIVE ListItems_KeepEmpty(_)
ListItems_KeepEmpty(parts) ==
  IF parts = <<>> THEN <<>>
  ELSE <<"<li>">> \o Trim(Head(parts)) \o <<"</li>">> \o ListItems_KeepEmpty(Tail(parts))

\* parts.map(trim).filter((part) => part).map(`<li>${part}</li>`).join('')
RECURSIVE ListItems(_)
ListItems(parts) ==
  IF parts = <<>> THEN <<>>
  ELSE (IF Trim(Head(parts)) = <<>> THEN <<>>
        ELSE <<"<li>">> \o Trim(Head(parts)) \o <<"</li>">>)
         \o ListItems(Tail(parts))

\* `<ul class="resume-items">${items}</ul>`
ListOf(inner) ==
  <<"<ul class=\"resume-items\">">> \o ListItems(Split(inner, ListItem)) \o <<"</ul>">>

(* The inputs *)

ListChunks ==
  { <<ListStart>>, <<ListEnd>>, <<ListItem>>, <<ListItem, " ", "a", " ">>, <<"t">> }

ListFragments ==
  UNION { { Flatten(f) : f \in [1..n -> ListChunks] } : n \in 0 .. MaxListChunks }

InitLists ==
  /\ listIn \in ListFragments
  /\ listResult = listIn
  /\ searchStart = 0
  /\ listLog = <<>>
  /\ pcList = "loop"
  /\ IdleParser
  /\ IdlePasses
  /\ IdleHeadings
  /\ IdleConvert
  /\ IdleBatch
  /\ IdleCleanup
  /\ IdleIcons
  /\ IdleKv
  /\ IdleMerge
  /\ IdleQuadHeadings
  /\ IdleSkills
  /\ IdleWrappers
  /\ IdleHeader

\* The loop left after the first list.
ListIteration_Once ==
  LET startIdx == IndexOf(listResult, ListStart, searchStart)
      endIdx == IndexOf(listResult, ListEnd, startIdx)
      before == Substring(listResult, 0, startIdx)
      inner == Substring(listResult, startIdx + 1, endIdx)
      after == Substring(listResult, endIdx + 1, Len(listResult))
  IN /\ pcList = "loop"
     /\ startIdx # -1
     /\ endIdx # -1
     /\ listResult' = before \o ListOf(inner) \o after
     /\ searchStart' = Len(before) + Len(ListOf(inner))
     /\ listLog' = Append(listLog, [startIdx |-> startIdx, endIdx |-> endIdx,
                                    from |-> searchStart, inner |-> inner,
                                    tail |-> Substring(listResult, startIdx,
                                                       Len(listResult)),
                                    ul |-> ListOf(inner)])
     /\ pcList' = "noStart"
     /\ UNCHANGED <<notLists, listIn>>

\* One iteration with the search position left where it was.
ListIteration_NoAdvance ==
  LET startIdx == IndexOf(listResult, ListStart, searchStart)
      endIdx == IndexOf(listResult, ListEnd, startIdx)
      before == Substring(listResult, 0, startIdx)
      inner == Substring(listResult, startIdx + 1, endIdx)
      after == Substring(listResult, endIdx + 1, Len(listResult))
  IN /\ pcList = "loop"
     /\ startIdx # -1
     /\ endIdx # -1
     /\ listResult' = before \o ListOf(inner) \o after
     /\ searchStart' = searchStart
     /\ listLog' = Append(listLog, [startIdx |-> startIdx, endIdx |-> endIdx,
                                    from |-> searchStart, inner |-> inner,
                                    tail |-> Substring(listResult, startIdx,
                                                       Len(listResult)),
                                    ul |-> ListOf(inner)])
     /\ UNCHANGED <<notLists, listIn, pcList>>

\* One iteration that finds a start marker and an end marker after it.
ListIteration ==
  LET startIdx == IndexOf(listResult, ListStart, searchStart)
      endIdx == IndexOf(listResult, ListEnd, startIdx)
      before == Substring(listResult, 0, startIdx)
      inner == Substring(listResult, startIdx + 1, endIdx)
      after == Substring(listResult, endIdx + 1, Len(listResult))
  IN /\ pcList = "loop"
     /\ startIdx # -1
     /\ endIdx # -1
     /\ listResult' = before \o ListOf(inner) \o after
     /\ searchStart' = Len(before) + Len(ListOf(inner))
     /\ listLog' = Append(listLog, [startIdx |-> startIdx, endIdx |-> endIdx,
                                    from |-> searchStart, inner |-> inner,
                                    tail |-> Substring(listResult, startIdx,
                                                       Len(listResult)),
                                    ul |-> ListOf(inner)])
     /\ UNCHANGED <<notLists, listIn, pcList>>

\* if (startIdx === -1) break
ListBreakNoStart ==
  /\ pcList = "loop"
  /\ IndexOf(listResult, ListStart, searchStart) = -1
  /\ pcList' = "noStart"
  /\ UNCHANGED <<notLists, listIn, listResult, searchStart, listLog>>

\* if (endIdx === -1) break
ListBreakNoEnd ==
  /\ pcList = "loop"
  /\ IndexOf(listResult, ListStart, searchStart) # -1
  /\ IndexOf(listResult, ListEnd, IndexOf(listResult, ListStart, searchStart)) = -1
  /\ pcList' = "noEnd"
  /\ UNCHANGED <<notLists, listIn, listResult, searchStart, listLog>>

NextLists ==
  \/ ListIteration
  \/ ListBreakNoStart
  \/ ListBreakNoEnd

SpecLists == InitLists /\ [][NextLists]_vars

(***************************************************************************)
(* Claims about processListMacros                                          *)
(***************************************************************************)

\* The positions of the token tok in s, in order.
RECURSIVE PositionsFrom(_, _, _)
PositionsFrom(s, tok, p) ==
  IF p >= Len(s) THEN <<>>
  ELSE IF At(s, p) = tok THEN <<p>> \o PositionsFrom(s, tok, p + 1)
  ELSE PositionsFrom(s, tok, p + 1)

\* The k-th segment of s between its item markers, k from 1.
Segment(s, k) ==
  LET ps == PositionsFrom(s, ListItem, 0) IN
  Substring(s, IF k = 1 THEN 0 ELSE ps[k - 1] + 1,
               IF k > Len(ps) THEN Len(s) ELSE ps[k])

SegmentCount(s) == Len(PositionsFrom(s, ListItem, 0)) + 1

\* A segment with something left after trimming.
NonEmptySegment(s, k) == \E n \in 1 .. Len(Segment(s, k)) : ~IsSpace(Segment(s, k)[n])

\* The items of a list: what its <li> elements enclose, in order.
RECURSIVE ItemsOf(_, _)
ItemsOf(ul, p) ==
  IF p >= Len(ul) THEN <<>>
  ELSE IF At(ul, p) = "<li>"
       THEN <<Until(ul, p + 1, "</li>")>> \o ItemsOf(ul, p + 1)
       ELSE ItemsOf(ul, p + 1)

\* The non-empty segments of s from the k-th on.
RECURSIVE KeptSegments(_, _)
KeptSegments(s, k) ==
  IF k > SegmentCount(s) THEN <<>>
  ELSE (IF NonEmptySegment(s, k) THEN <<Segment(s, k)>> ELSE <<>>)
         \o KeptSegments(s, k + 1)

\* One start marker, one end marker, three item markers between them and
\* nothing but blanks before the first of these.
ThreeItemMarkers(h) ==
  /\ Len(PositionsFrom(h, ListStart, 0)) = 1
  /\ Len(PositionsFrom(h, ListEnd, 0)) = 1
  /\ IndexOf(h, ListStart, 0) < IndexOf(h, ListEnd, 0)
  /\ LET inner == Substring(h, IndexOf(h, ListStart, 0) + 1, IndexOf(h, ListEnd, 0)) IN
     /\ SegmentCount(inner) = 4
     /\ ~NonEmptySegment(inner, 1)
     /\ Len(PositionsFrom(h, ListItem, 0)) = 3

\* Every list made is the start marker's content up to the first end marker
\* after it, in the text of the input, split at the item markers, with the
\* segments that are empty after trimming dropped and the others in order.
ItemsAreKeptSegments ==
  \A n \in 1 .. Len(listLog) :
    LET it == listLog[n] IN
    /\ it.tail = Substring(listIn, Len(listIn) - Len(it.tail), Len(listIn))
    /\ Head(it.tail) = ListStart
    /\ it.inner = Until(it.tail, 1, ListEnd)
    /\ Len(ItemsOf(it.ul, 0)) = Len(KeptSegments(it.inner, 1))
    /\ \A k \in 1 .. Len(ItemsOf(it.ul, 0)) :
         TrimmedOf(KeptSegments(it.inner, 1)[k], ItemsOf(it.ul, 0)[k])
    /\ Head(it.ul) = "<ul class=\"resume-items\">"
    /\ it.ul[Len(it.ul)] = "</ul>"
    /\ Len(it.ul) = 2 + Len(Flatten(ItemsOf(it.ul, 0))) + 2 * Len(ItemsOf(it.ul, 0))

\* C14 as stated: the items of a list are the non-empty trimmed segments of
\* its content, and one start marker, three item markers with the first
\* segment empty and one end marker give a list of exactly 2 items.
C14_ThreeMarkersTwoItems ==
  /\ ItemsAreKeptSegments
  /\ (pcList # "loop" /\ ThreeItemMarkers(listIn)) =>
       (Len(listLog) = 1 /\ Len(ItemsOf(listLog[1].ul, 0)) = 2)

\* C14 amended: the items of a list are the non-empty trimmed segments of
\* its content, and one start marker, three item markers with the first
\* segment empty and one end marker give a list with one item for each of
\* the three other segments that is not empty: 3 items when none is.
C14_ThreeMarkersUpToThreeItems ==
  /\ ItemsAreKeptSegments
  /\ (pcList # "loop" /\ ThreeItemMarkers(listIn)) =>
       /\ Len(listLog) = 1
       /\ Len(ItemsOf(listLog[1].ul, 0)) =
            Cardinality({ k \in 2 .. 4 : NonEmptySegment(listLog[1].inner, k) })
       /\ (\A k \in 2 .. 4 : NonEmptySegment(listLog[1].inner, k)) =>
            Len(ItemsOf(listLog[1].ul, 0)) = 3

\* C14 witness: one start marker, three item markers with an empty first
\* segment and text after each, one end marker: a list of 3 items.
C14_Witness ==
  /\ pcList # "loop"
  /\ ThreeItemMarkers(listIn)
  /\ Len(listLog) = 1
  /\ \A k \in 2 .. 4 : NonEmptySegment(listLog[1].inner, k)
  /\ Len(ItemsOf(listLog[1].ul, 0)) = 3

\* No start marker between a start marker and the first end marker after it.
MarkersDoNotNest(h) ==
  \A i, j \in 0 .. Len(h) - 1 :
    (/\ i < j
     /\ At(h, i) = ListStart
     /\ At(h, j) = ListStart) => \E k \in i + 1 .. j - 1 : At(h, k) = ListEnd

StartBeforeEnd(h) ==
  \E i, j \in 0 .. Len(h) - 1 : i < j /\ At(h, i) = ListStart /\ At(h, j) = ListEnd

\* A start marker with no end marker after it stopped the loop and is where
\* it was, with the text after it, as in the input.
UnmatchedStartKept ==
  pcList = "noEnd" =>
    LET p == IndexOf(listResult, ListStart, searchStart)
        tail == Substring(listResult, p, Len(listResult))
    IN /\ p # -1
       /\ tail = Substring(listIn, Len(listIn) - Len(tail), Len(listIn))
       /\ IndexOf(listResult, ListEnd, p) = -1

\* C17 as stated: the output holds no start marker with an end marker
\* somewhere after it, and a start marker with no end marker after it stops
\* the processing and stays in place.
C17_NoPairLeft ==
  /\ pcList \in {"noStart", "noEnd"} => ~StartBeforeEnd(listResult)
  /\ UnmatchedStartKept

\* C17 amended: the same for an input whose markers do not nest.
C17_NoPairLeftUnlessNested ==
  /\ (pcList \in {"noStart", "noEnd"} /\ MarkersDoNotNest(listIn)) =>
       ~StartBeforeEnd(listResult)
  /\ UnmatchedStartKept

\* C17 witness: two lists were made one after the other and a third start
\* marker, with no end marker after it, stopped the loop.
C17_Witness ==
  /\ pcList = "noEnd"
  /\ Len(listLog) = 2
  /\ MarkersDoNotNest(listIn)

(***************************************************************************)
(* kv-setup: the dispatch of the command line                              *)
(***************************************************************************)

\* The keys of the object commands.
CommandKeys ==
  {"createNamespace", "createPreviewNamespace", "setSecretKey", "setGitHubUrl",
   "getSecretKey", "listKeys", "deleteSecretKey", "help"}

\* The command names the help text prints.
DocumentedCommands ==
  {"create-namespace", "create-preview", "set-key", "set-url", "get-key", "list",
   "delete-key", "help"}

\* Names commands[command] finds on Object.prototype: a function, an object.
InheritedFunctions == {"toString"}
InheritedObjects == {"__proto__"}

\* process.argv after the script: no command, or a command with arguments.
KvCommandLines ==
  { [command |-> Null, args |-> <<>>] }
    \cup { [command |-> Some(c), args |-> a] :
             c \in CommandKeys \cup DocumentedCommands \cup InheritedFunctions
                     \cup InheritedObjects \cup {"bogus"},
             a \in {<<>>, <<"value">>, <<"value", "more">>} }

\* The wrangler command line of a handler.
WranglerCommand(key, arg) ==
  CASE key = "createNamespace" -> <<"wrangler kv:namespace create \"SECRETS\"">>
    [] key = "createPreviewNamespace" ->
         <<"wrangler kv:namespace create \"SECRETS\" --preview">>
    [] key = "setSecretKey" ->
         <<"wrangler kv:key put \"RESUME_SECRET_KEY\" \"", arg, "\" --binding SECRETS">>
    [] key = "setGitHubUrl" ->
         <<"wrangler kv:key put \"GITHUB_PAGES_URL\" \"", arg, "\" --binding SECRETS">>
    [] key = "getSecretKey" ->
         <<"wrangler kv:key get \"RESUME_SECRET_KEY\" --binding SECRETS">>
    [] key = "listKeys" -> <<"wrangler kv:key list --binding SECRETS">>
    [] key = "deleteSecretKey" ->
         <<"wrangler kv:key delete \"RESUME_SECRET_KEY\" --binding SECRETS">>

InitKv ==
  /\ \E line \in KvCommandLines : kvCommand = line.command /\ kvArgs = line.args
  /\ kvHandler = Null
  /\ kvExec = <<>>
  /\ kvOutput = <<>>
  /\ kvExit = Null
  /\ pcKv = "dispatch"
  /\ IdleParser
  /\ IdlePasses
  /\ IdleHeadings
  /\ IdleConvert
  /\ IdleBatch
  /\ IdleCleanup
  /\ IdleIcons
  /\ IdleLists
  /\ IdleMerge
  /\ IdleQuadHeadings
  /\ IdleSkills
  /\ IdleWrappers
  /\ IdleHeader

\* commands[command] is an own property of commands.
Dispatches(key) ==
  /\ pcKv = "dispatch"
  /\ kvCommand = Some(key)
  /\ kvHandler' = Some(key)

\* The script runs off its end: status 0.
KvEnd ==
  /\ kvExit' = Some(0)
  /\ pcKv' = "exited"

\* A handler with no argument calls execSync in a try block.
RunsWrangler(key) ==
  /\ Dispatches(key)
  /\ kvExec' = Append(kvExec, WranglerCommand(key, ""))
  /\ pcKv' = "execSync"
  /\ UNCHANGED <<notKv, kvCommand, kvArgs, kvOutput, kvExit>>

\* A handler with an argument: without it the usage is printed and nothing
\* is executed.
RunsWranglerWith(key) ==
  /\ Dispatches(key)
  /\ IF kvArgs = <<>>
       THEN kvOutput' = Append(kvOutput, "usage") /\ KvEnd /\ UNCHANGED kvExec
       ELSE /\ kvExec' = Append(kvExec, WranglerCommand(key, kvArgs[1]))
            /\ pcKv' = "execSync"
            /\ UNCHANGED <<kvOutput, kvExit>>
  /\ UNCHANGED <<notKv, kvCommand, kvArgs>>

\* execSync returns: the success message is printed.
ExecSyncReturns ==
  /\ pcKv = "execSync"
  /\ kvOutput' = Append(kvOutput, "ok")
  /\ KvEnd
  /\ UNCHANGED <<notKv, kvCommand, kvArgs, kvHandler, kvExec>>

\* execSync throws: the catch block prints the error.
ExecSyncThrows ==
  /\ pcKv = "execSync"
  /\ kvOutput' = Append(kvOutput, "error")
  /\ KvEnd
  /\ UNCHANGED <<notKv, kvCommand, kvArgs, kvHandler, kvExec>>

\* commands[command] is truthy.
CommandFound ==
  /\ kvCommand # Null
  /\ ValueOf(kvCommand) \in CommandKeys \cup InheritedFunctions \cup InheritedObjects

\* if (!command || !commands[command]) { commands.help(); process.exit(1); }
HelpAndExit ==
  /\ pcKv = "dispatch"
  /\ ~CommandFound
  /\ kvOutput' = Append(kvOutput, "help")
  /\ kvExit' = Some(1)
  /\ pcKv' = "exited"
  /\ UNCHANGED <<notKv, kvCommand, kvArgs, kvHandler, kvExec>>

CreateNamespace == RunsWrangler("createNamespace")

CreatePreviewNamespace == RunsWrangler("createPreviewNamespace")

SetSecretKey == RunsWranglerWith("setSecretKey")

SetGitHubUrl == RunsWranglerWith("setGitHubUrl")

GetSecretKey == RunsWrangler("getSecretKey")

ListKeys == RunsWrangler("listKeys")

DeleteSecretKey == RunsWrangler("deleteSecretKey")

\* commands.help(...args)
Help ==
  /\ Dispatches("help")
  /\ kvOutput' = Append(kvOutput, "help")
  /\ KvEnd
  /\ UNCHANGED <<notKv, kvCommand, kvArgs, kvExec>>

\* commands[command] is a function of Object.prototype: it is called, and
\* the script ends.
CallInherited ==
  /\ pcKv = "dispatch"
  /\ kvCommand # Null
  /\ ValueOf(kvCommand) \in InheritedFunctions
  /\ KvEnd
  /\ UNCHANGED <<notKv, kvCommand, kvArgs, kvHandler, kvExec, kvOutput>>

\* commands[command] is an object that is no function: the call throws a
\* TypeError that nothing catches.
CallNonFunction ==
  /\ pcKv = "dispatch"
  /\ kvCommand # Null
  /\ ValueOf(kvCommand) \in InheritedObjects
  /\ kvOutput' = Append(kvOutput, "TypeError")
  /\ kvExit' = Some(1)
  /\ pcKv' = "exited"
  /\ UNCHANGED <<notKv, kvCommand, kvArgs, kvHandler, kvExec>>

NextKv ==
  \/ HelpAndExit
  \/ CreateNamespace
  \/ CreatePreviewNamespace
  \/ SetSecretKey
  \/ SetGitHubUrl
  \/ GetSecretKey
  \/ ListKeys
  \/ DeleteSecretKey
  \/ ExecSyncReturns
  \/ ExecSyncThrows
  \/ Help
  \/ CallInherited
  \/ CallNonFunction

SpecKv == InitKv /\ [][NextKv]_vars

\* The handler the help text means by a command name.
HandlerOf(command) ==
  CASE command = "create-namespace" -> "createNamespace"
    [] command = "create-preview" -> "createPreviewNamespace"
    [] command = "set-key" -> "setSecretKey"
    [] command = "set-url" -> "setGitHubUrl"
    [] command = "get-key" -> "getSecretKey"
    [] command = "list" -> "listKeys"
    [] command = "delete-key" -> "deleteSecretKey"
    [] command = "help" -> "help"

\* C16: every documented command name runs its handler, and the help with
\* exit status 1 is only for a missing or an undocumented command.
C16_DocumentedCommandsDispatch ==
  pcKv = "exited" =>
    /\ (kvCommand # Null /\ ValueOf(kvCommand) \in DocumentedCommands) =>
         kvHandler = Some(HandlerOf(ValueOf(kvCommand)))
    /\ (kvExit = Some(1) /\ kvOutput = <<"help">>) =>
         (kvCommand = Null \/ ValueOf(kvCommand) \notin DocumentedCommands)

(***************************************************************************)
(* mergeDateRanges                                                         *)
(*                                                                         *)
(* The fragments are quad-details blocks as processQuadDetails emits them: *)
(* four markup tokens with the organisation, the date and the role between *)
(* them.                                                                   *)
(***************************************************************************)

\* The most quad-details blocks of a fragment.
MaxBlocks == 2

\* The markup of a block: it opens (ending in <div class="left">), the date
\* span opens, the role opens (from </span> to <div class="left"><em>), the
\* role closes (from </em> on).
QuadOpen == "\n<div class=\"quad-details\">\n  <div class=\"row\"><div class=\"left\">"
DateOpen == "</div><div class=\"right\"><span class=\"date\">"
RoleOpen == "</span></div></div>\n  <div class=\"row\"><div class=\"left\"><em>"
RoleClose == "</em></div><div class=\"right\"></div></div>\n</div>"

\* The tokens [^<] matches: the ones that hold no "<".
NoTag(tok) == tok \notin {QuadOpen, DateOpen, RoleOpen, RoleClose, "<strong>", "</strong>"}

\* The last position of the run of tokens without "<" that starts at p (p - 1
\* when the token at p has a "<").
RECURSIVE RunEnd(_, _)
RunEnd(h, p) ==
  IF p < Len(h) /\ NoTag(At(h, p)) THEN RunEnd(h, p + 1) ELSE p - 1

AllSpaces(h, a, b) == \A q \in a .. b : IsSpace(At(h, q))

\* For the date span opened at j: \s*([^<]*?–)\s* followed by </span>
\* matches when the text of the span ends in a dash and blanks.  The dash.
DashOf(h, j) ==
  LET e == RunEnd(h, j + 1)
      ds == { d \in j + 1 .. e : At(h, d) = EnDash /\ AllSpaces(h, d + 1, e) }
  IN IF ds = {} \/ e + 1 >= Len(h) \/ At(h, e + 1) # RoleOpen THEN -1
     ELSE CHOOSE d \in ds : TRUE

\* For the role opened at k: \s*Present\s+([^<]*?)(<\/em>) matches when the
\* text is the word Present, white space, and text with no tag.  The
\* position of the word.
PresentOf(h, k) ==
  LET e == RunEnd(h, k + 1)
      ws == { w \in k + 1 .. e - 1 :
                /\ At(h, w) = "Present"
                /\ AllSpaces(h, k + 1, w - 1)
                /\ IsSpace(At(h, w + 1)) }
  IN IF ws = {} \/ e + 1 >= Len(h) \/ At(h, e + 1) # RoleClose THEN -1
     ELSE CHOOSE w \in ws : TRUE

\* The matches <<i, j, k>> of the regex that start at or after p: a block
\* opening at i, a date span at j after it that ends in a dash, a role at k
\* after that span that starts with Present.
MergeMatches(h, p) ==
  { m \in (p .. Len(h) - 1) \X (p .. Len(h) - 1) \X (p .. Len(h) - 1) :
      /\ At(h, m[1]) = QuadOpen
      /\ m[1] < m[2] /\ At(h, m[2]) = DateOpen /\ DashOf(h, m[2]) # -1
      /\ m[2] < m[3] /\ At(h, m[3]) = RoleOpen /\ PresentOf(h, m[3]) # -1 }

\* The match the regex finds: the leftmost start, and from it the lazy
\* quantifiers take the first date span and then the first role that fit.
FirstMergeMatch(h, p) ==
  CHOOSE m \in MergeMatches(h, p) :
    \A n \in MergeMatches(h, p) :
      \/ m[1] < n[1]
      \/ m[1] = n[1] /\ m[2] < n[2]
      \/ m[1] = n[1] /\ m[2] = n[2] /\ m[3] <= n[3]

\* `${pre}${startDash} Present${mid}${roleRest}${end}`
MergeReplacement(h, m) ==
  LET d == DashOf(h, m[2])
      w == PresentOf(h, m[3])
      e == RunEnd(h, m[3] + 1)
  IN Substring(h, m[1], m[2] + 1)
       \o TrimStart(Substring(h, m[2] + 1, d + 1))
       \o <<" ", "Present">>
       \o Substring(h, RunEnd(h, m[2] + 1) + 1, m[3] + 1)
       \o TrimStart(Substring(h, w + 1, e + 1))
       \o <<RoleClose>>

(* The inputs *)

QuadDates == { <<"2023", " ", "--">>, <<"2020", " ", "--", " ", "2021">> }

QuadRoles ==
  { <<"Present", " ", "Dev">>, <<"Dev">>, <<"Present">>,
    <<"Oct 2024", " ", "Dev">> }

QuadBlocks == { <<d, r>> : d \in QuadDates, r \in QuadRoles }

BlockOf(b) == RenderQuadDetails(TupleOf("processQuadDetails", <<<<"Org">>, b[1], b[2]>>))

InitMerge ==
  /\ \E n \in 0 .. MaxBlocks : mergeBlocks \in [1..n -> QuadBlocks]
  /\ mergeIn = Flatten([n \in 1 .. Len(mergeBlocks) |-> BlockOf(mergeBlocks[n])])
  /\ mergeOut = <<>>
  /\ mergePos = 0
  /\ mergeLog = <<>>
  /\ pcMerge = "replace"
  /\ IdleParser
  /\ IdlePasses
  /\ IdleHeadings
  /\ IdleConvert
  /\ IdleBatch
  /\ IdleCleanup
  /\ IdleIcons
  /\ IdleLists
  /\ IdleKv
  /\ IdleQuadHeadings
  /\ IdleSkills
  /\ IdleWrappers
  /\ IdleHeader

\* One match of html.replace: the text before it is copied and the
\* replacement takes its place.
MergeMatch ==
  /\ pcMerge = "replace"
  /\ MergeMatches(mergeIn, mergePos) # {}
  /\ LET m == FirstMergeMatch(mergeIn, mergePos) IN
       /\ mergeOut' = mergeOut \o Substring(mergeIn, mergePos, m[1])
                        \o MergeReplacement(mergeIn, m)
       /\ mergePos' = RunEnd(mergeIn, m[3] + 1) + 2
       /\ mergeLog' = Append(mergeLog, m)
  /\ UNCHANGED <<notMerge, mergeBlocks, mergeIn, pcMerge>>

\* No further match: the rest is copied and the pass returns.
MergeReturn ==
  /\ pcMerge = "replace"
  /\ MergeMatches(mergeIn, mergePos) = {}
  /\ mergeOut' = mergeOut \o Substring(mergeIn, mergePos, Len(mergeIn))
  /\ mergePos' = Len(mergeIn)
  /\ pcMerge' = "done"
  /\ UNCHANGED <<notMerge, mergeBlocks, mergeIn, mergeLog>>

NextMerge ==
  \/ MergeMatch
  \/ MergeReturn

SpecMerge == InitMerge /\ [][NextMerge]_vars

(***************************************************************************)
(* Claims about mergeDateRanges                                            *)
(***************************************************************************)

\* The text of the date span and of the role of the n-th block of h.
DateOfBlock(h, n) == Until(h, PositionsFrom(h, DateOpen, 0)[n] + 1, RoleOpen)
RoleOfBlock(h, n) == Until(h, PositionsFrom(h, RoleOpen, 0)[n] + 1, RoleClose)

\* The terminal token a role text starts with: the word Present or a month
\* abbreviation with its year; <<>> when it starts with neither.
TerminalToken(role) ==
  IF role # <<>> /\ Head(role) \in {"Present", "Oct 2024"} THEN <<Head(role)>> ELSE <<>>

\* C20: a block whose date span ends in a dash and whose role text starts
\* with the terminal token of the range has, after the pass, the token at the
\* end of its date span and the rest of the role text as its role text.
C20_TerminalTokenMoved ==
  pcMerge = "done" =>
    \A n \in 1 .. Len(mergeBlocks) :
      LET date == DateOfBlock(mergeIn, n)
          role == RoleOfBlock(mergeIn, n)
      IN (date[Len(date)] = EnDash /\ TerminalToken(role) # <<>>) =>
           /\ DateOfBlock(mergeOut, n) = date \o <<" ">> \o TerminalToken(role)
           /\ RoleOfBlock(mergeOut, n) = TrimStart(Tail(role))


\* The role text starts with the word Present followed by white space.
StartsWithPresent(role) ==
  Len(role) >= 2 /\ role[1] = "Present" /\ IsSpace(role[2])

\* The n-th block of h: from its opening to the end of its closing markup.
BlockAt(h, n) ==
  Substring(h, PositionsFrom(h, QuadOpen, 0)[n], PositionsFrom(h, RoleClose, 0)[n] + 1)

\* C26: the pass moves Present only within one block: a block whose date
\* span ends in a dash and whose role text starts with Present gets the
\* word at the end of its own date span, and every other block is returned
\* as it was.
C26_OnlyWithinOwnBlock ==
  pcMerge = "done" =>
    \A n \in 1 .. Len(mergeBlocks) :
      LET date == DateOfBlock(mergeIn, n)
          role == RoleOfBlock(mergeIn, n)
      IN IF date[Len(date)] = EnDash /\ StartsWithPresent(role)
         THEN /\ DateOfBlock(mergeOut, n) \in {date, date \o <<" ", "Present">>}
              /\ DateOfBlock(mergeOut, n) = date => RoleOfBlock(mergeOut, n) = role
         ELSE BlockAt(mergeOut, n) = BlockAt(mergeIn, n)


(***************************************************************************)
(* Claims about the brace groups parseLatexMacro reads                     *)
(***************************************************************************)

\* The invocation at m lies inside an argument of the tuple t.
NestedIn(s, m, t) ==
  \E j \in 1 .. Len(t.opens) : t.opens[j] < m /\ m < CloseOf(s, t.opens[j])

\* C25: the arguments of a tuple are brace groups of its own invocation: no
\* argument begins after a later invocation of the macro that is not nested
\* in an argument of the tuple, and two tuples of invocations that are not
\* nested in each other share no brace group.
C25_ArgumentsFromOwnInvocation ==
  pcParse = "done" =>
    /\ \A k \in 1 .. Len(matches) :
         \A m \in Invocations(content, Cmd(macroName)) :
           (m > matches[k].index /\ ~NestedIn(content, m, matches[k])) =>
             \A j \in 1 .. Len(matches[k].opens) : matches[k].opens[j] < m
    /\ \A k, m \in 1 .. Len(matches) :
         (/\ k # m
          /\ ~NestedIn(content, matches[m].index, matches[k])
          /\ ~NestedIn(content, matches[k].index, matches[m])) =>
           \A j, l \in 1 .. argCount : matches[k].opens[j] # matches[m].opens[l]

\* parseLatexMacro with each step of its loops taken eventually.
SpecParserLive == SpecParser /\ WF_vars(NextParser)

\* C29: parseLatexMacro returns on every input, the brace depth is never
\* negative during the walk, and every returned tuple has exactly argCount
\* arguments.
C29_TerminatesDepthNonNegative ==
  /\ <>(pcParse = "done")
  /\ [](braceCount >= 0)
  /\ [](\A k \in 1 .. Len(matches) : Len(matches[k].args) = argCount)

\* C29 witness: the function returned tuples for a text with a stray closing
\* brace and an argument the text ends in.
C29_Witness ==
  /\ pcParse = "done"
  /\ Len(matches) >= 1
  /\ ~Balanced(content)
  /\ \E p \in 0 .. Len(content) - 1 :
       CountOf(content, 0, p, "}") > CountOf(content, 0, p, "{")
  /\ \E i \in Invocations(content, Cmd(macroName)) :
       EndsBeforeArguments(content, i, argCount)


(***************************************************************************)
(* Claims about the loop of processListMacros                              *)
(***************************************************************************)

\* The most chunks of a fragment in the runs checked for termination.
MaxLiveChunks == 4

\* Their chunks: the markers, an item with its text, text outside a list.
LiveChunks == { <<ListStart>>, <<ListEnd>>, <<ListItem, "a">>, <<"t">> }

InitListsLive ==
  /\ \E n \in 0 .. MaxLiveChunks : \E f \in [1..n -> LiveChunks] : listIn = Flatten(f)
  /\ listResult = listIn
  /\ searchStart = 0
  /\ listLog = <<>>
  /\ pcList = "loop"
  /\ IdleParser
  /\ IdlePasses
  /\ IdleHeadings
  /\ IdleConvert
  /\ IdleBatch
  /\ IdleCleanup
  /\ IdleIcons
  /\ IdleKv
  /\ IdleMerge
  /\ IdleQuadHeadings
  /\ IdleSkills
  /\ IdleWrappers
  /\ IdleHeader

\* processListMacros with each step of its loop taken eventually.
SpecListsLive == InitListsLive /\ [][NextLists]_vars /\ WF_vars(NextLists)

MarkerCount(h, tok) == Cardinality({ p \in 0 .. Len(h) - 1 : At(h, p) = tok })

\* What one iteration does to result and searchStart: a region from a start
\* marker at s to an end marker at e is replaced, one marker of each kind
\* fewer is left, the text before s and after e stays as it was, and
\* searchStart moves forward to the end of the replacement.
IterationEffect ==
  /\ searchStart' > searchStart
  /\ MarkerCount(listResult', ListStart) = MarkerCount(listResult, ListStart) - 1
  /\ MarkerCount(listResult', ListEnd) = MarkerCount(listResult, ListEnd) - 1
  /\ \E s \in searchStart .. Len(listResult) - 1 :
       \E e \in s + 1 .. Len(listResult) - 1 :
         /\ At(listResult, s) = ListStart
         /\ At(listResult, e) = ListEnd
         /\ Substring(listResult', 0, s) = Substring(listResult, 0, s)
         /\ Substring(listResult', searchStart', Len(listResult'))
              = Substring(listResult, e + 1, Len(listResult))
         /\ At(listResult', s) = "<ul class=\"resume-items\">"
         /\ At(listResult', searchStart' - 1) = "</ul>"

\* What ends the loop: no start marker from searchStart on, or no end marker
\* after the first such start marker; nothing is changed by the break.
BreakEffect ==
  /\ listResult' = listResult
  /\ pcList' = "noStart" =>
       \A p \in searchStart .. Len(listResult) - 1 : At(listResult, p) # ListStart
  /\ pcList' = "noEnd" =>
       \E s \in searchStart .. Len(listResult) - 1 :
         /\ At(listResult, s) = ListStart
         /\ \A p \in searchStart .. s - 1 : At(listResult, p) # ListStart
         /\ \A p \in s .. Len(listResult) - 1 : At(listResult, p) # ListEnd

\* C30: processListMacros returns on every input; each iteration removes one
\* start marker and one end marker, moves the search position strictly
\* forward and keeps the text outside the replaced region; the loop ends as
\* soon as no start marker, or no end marker after it, is found.
C30_LoopTerminatesKeepingOutside ==
  /\ <>(pcList \in {"noStart", "noEnd"})
  /\ [][pcList = "loop" => IF pcList' = "loop" THEN IterationEffect ELSE BreakEffect]_vars

\* C30 witness: the loop ended after an iteration that made a list with an
\* item, on a fragment with text outside the list.
C30_Witness ==
  /\ pcList \in {"noStart", "noEnd"}
  /\ Len(listLog) >= 1
  /\ \E p \in 0 .. Len(listResult) - 1 : At(listResult, p) = "t"
  /\ \E p \in 0 .. Len(listResult) - 1 : At(listResult, p) = "<li>"


(***************************************************************************)
(* Claims about the manifest of a batch run                                *)
(***************************************************************************)

\* The entries of the files that converted and were written, in the order
\* of the loop.
ConvertedEntries ==
  LET ok == SelectSeq(files, LAMBDA f : dirEntries[f].outcome = "ok")
  IN [k \in 1 .. Len(ok) |-> ManifestEntry(ok[k])]

\* The run entered the file loop and the process has ended.
LoopRunEnded == pcMain = "exited" /\ fileIdx >= 1

\* The manifest file changes once only: written after the last file, with
\* the exit still to come.
ManifestWriteStep ==
  manifestFile' # manifestFile =>
    /\ manifestFile = Null
    /\ (Len(files) # 0 => pcMain = "loop" /\ fileIdx > Len(files) /\ pcMain' = "exit")
    /\ exitCode = Null

\* C28 as stated: a run that reached the file loop ends with every file
\* processed and with the manifest written once, after the last file and
\* before the exit, holding one entry per converted file in processing order.
C28_ManifestWrittenOnce ==
  /\ [](LoopRunEnded =>
          /\ fileIdx > Len(files)
          /\ manifestFile = Some(ConvertedEntries))
  /\ [][ManifestWriteStep]_vars

\* C28 amended: as stated when writing the manifest does not throw; when it
\* throws, every file has still been processed, no manifest is written and
\* the process ends with status 1.
C28_ManifestWrittenOnceUnlessThrown ==
  /\ [](LoopRunEnded =>
          /\ fileIdx > Len(files)
          /\ IF uncaught = Null
               THEN manifestFile = Some(ConvertedEntries)
               ELSE manifestFile = Null /\ exitCode = Some(1))
  /\ [][ManifestWriteStep]_vars

\* C28 witness: three files, the first failed and a later one converted; the
\* run ended with the manifest written, holding the entries of the
\* converted files only.
C28_Witness ==
  /\ LoopRunEnded
  /\ Len(files) = 3
  /\ dirEntries[files[1]].outcome # "ok"
  /\ manifestFile = Some(ConvertedEntries)
  /\ Len(ConvertedEntries) \in {1, 2}

(***************************************************************************)
(* processQuadHeadings, as convertLatexToHtml of converter.mjs calls it    *)
(***************************************************************************)

\* The most education markers of a fragment.
MaxQuadHeadings == 3

QuadHeadingMarker == "<span class=\"macro macro-resumeQuadHeading\"></span>"

\* The tokens the lookahead (?=(<ul|<span|<\/div|<\/p|$)) stops at, the end of
\* the text apart.
IsQuadHeadingTerminator(tok) == tok \in {QuadHeadingMarker, "<ul>", "</div>", "</p>"}

\* The block the callback returns for the tuple parsed.
RenderQuadHeading(parsed) ==
  LET dateRange == Trim(CollapseSpaces(ReplaceDashes(parsed[5])))
  IN <<"\n<div class=\"quad\">\n  <div class=\"row\"><div class=\"left\"><strong>">>
       \o Trim(parsed[2])
       \o <<"</strong></div><div class=\"right\">">>
       \o Trim(parsed[3])
       \o <<"</div></div>\n  <div class=\"row\"><div class=\"left\"><em>">>
       \o Trim(parsed[4])
       \o <<"</em></div><div class=\"right\"><em>">>
       \o dateRange
       \o <<"</em></div></div>\n</div>">>

\* The replace callback: m is the match, idx the value of idx before idx++.
QuadHeadingCallback(m, idx) ==
  IF idx >= Len(qhTuples) \/ Len(qhTuples[idx + 1]) < 5
    THEN m
    ELSE RenderQuadHeading(qhTuples[idx + 1])

(* The inputs *)

\* What the renderer leaves after a marker: institution, city and country, the
\* degree line and the dates in a paragraph; the same before a list with no
\* location; nothing.
QuadHeadingTails ==
  { <<"MIT", ",", " ", "Boston, USA", " ", "Bachelor of Science", " ",
      "Sep. 2019 - Jun. 2023", "</p>">>,
    <<"ETH", " ", "Bachelor of Arts", "<ul>">>,
    <<>> }

QuadHeadingSites == { <<"<p>", QuadHeadingMarker>> \o t : t \in QuadHeadingTails }

QuadHeadingFragments ==
  UNION { { Flatten(f) : f \in [1..n -> QuadHeadingSites] } : n \in 0 .. MaxQuadHeadings }

\* The tuple [fullMatch, arg1, arg2, arg3, arg4] parseLatexMacro returns for
\* \resumeQuadHeading{MIT}{Boston, USA}{Bachelor of Science}{Sep. 2019 -- Jun. 2023}.
QuadHeadingTuple ==
  << <<"\\resumeQuadHeading", "{", "MIT", "}", "{", "Boston, USA", "}", "{",
       "Bachelor of Science", "}", "{", "Sep. 2019", " ", "--", " ", "Jun. 2023", "}">>,
     <<"MIT">>, <<"Boston, USA">>, <<"Bachelor of Science">>,
     <<"Sep. 2019", " ", "--", " ", "Jun. 2023">> >>

InitQuadHeadings ==
  /\ qhHtml \in QuadHeadingFragments
  /\ \E n \in 0 .. MaxQuadHeadings : qhTuples = [k \in 1 .. n |-> QuadHeadingTuple]
  /\ qhIdx = 0
  /\ qhPos = 0
  /\ qhOut = <<>>
  /\ qhCalls = <<>>
  /\ pcQh = "replace"
  /\ IdleParser
  /\ IdlePasses
  /\ IdleHeadings
  /\ IdleConvert
  /\ IdleBatch
  /\ IdleCleanup
  /\ IdleIcons
  /\ IdleLists
  /\ IdleKv
  /\ IdleMerge
  /\ IdleSkills
  /\ IdleWrappers
  /\ IdleHeader

\* The markers at or after qhPos; with $ in the lookahead each one matches.
QuadHeadingHits ==
  { i \in qhPos .. Len(qhHtml) - 1 : At(qhHtml, i) = QuadHeadingMarker }

\* The end of the match that starts at i: the first terminator after the
\* marker, or the end of the text.
QuadHeadingMatchEnd(i) ==
  LET ts == { t \in i + 1 .. Len(qhHtml) - 1 : IsQuadHeadingTerminator(At(qhHtml, t)) }
  IN IF ts = {} THEN Len(qhHtml) ELSE CHOOSE t \in ts : \A u \in ts : t <= u

\* One match of html.replace: the text before it is copied and the
\* callback's result takes the place of the match.
QuadHeadingMatch ==
  /\ pcQh = "replace"
  /\ QuadHeadingHits # {}
  /\ LET i == CHOOSE h \in QuadHeadingHits : \A k \in QuadHeadingHits : h <= k
         m == Substring(qhHtml, i, QuadHeadingMatchEnd(i))
         ret == QuadHeadingCallback(m, qhIdx)
     IN /\ qhOut' = qhOut \o Substring(qhHtml, qhPos, i) \o ret
        /\ qhPos' = QuadHeadingMatchEnd(i)
        /\ qhCalls' = Append(qhCalls, [m |-> m, idx |-> qhIdx, ret |-> ret])
  /\ qhIdx' = qhIdx + 1
  /\ UNCHANGED <<notQuadHeadings, qhHtml, qhTuples, pcQh>>

\* No further match: the rest is copied and the pass returns.
QuadHeadingReturn ==
  /\ pcQh = "replace"
  /\ QuadHeadingHits = {}
  /\ qhOut' = qhOut \o Substring(qhHtml, qhPos, Len(qhHtml))
  /\ qhPos' = Len(qhHtml)
  /\ pcQh' = "done"
  /\ UNCHANGED <<notQuadHeadings, qhHtml, qhTuples, qhIdx, qhCalls>>

NextQuadHeadings ==
  \/ QuadHeadingMatch
  \/ QuadHeadingReturn

SpecQuadHeadings == InitQuadHeadings /\ [][NextQuadHeadings]_vars

(***************************************************************************)
(* Claims about processQuadHeadings                                        *)
(***************************************************************************)

\* C21: for an education marker followed by its text and with no 4-argument
\* tuple, the pass emits a quad block all the same, its institution taken
\* from the text before the degree line, and does not leave the marker
\* before that text in the output.
C21_FallbackEmitsQuadBlock ==
  pcQh = "done" =>
    /\ \A c \in 1 .. Len(qhCalls) :
         (qhCalls[c].idx >= Len(qhTuples) /\ Len(qhCalls[c].m) >= 2) =>
           /\ qhCalls[c].ret # qhCalls[c].m
           /\ Head(qhCalls[c].ret)
                = "\n<div class=\"quad\">\n  <div class=\"row\"><div class=\"left\"><strong>"
           /\ qhCalls[c].ret[2] = qhCalls[c].m[2]
    /\ \A p \in 0 .. Len(qhOut) - 2 :
         At(qhOut, p) = QuadHeadingMarker => IsQuadHeadingTerminator(At(qhOut, p + 1))

(***************************************************************************)
(* processTechnicalSkills, with the sectionType matches of                 *)
(* extractMacroMatches                                                      *)
(***************************************************************************)

\* The most resumeSectionType invocations of a source.
MaxSkillRows == 2

SectionTypeCmd == "\\resumeSectionType"
SkillsHeading == "<h2>Technical Skills</h2>"

\* The position of the first "}" at or after p, -1 when there is none:
\* where \{([^}]*)\} ends a group opened before p.
RECURSIVE FirstClose(_, _)
FirstClose(s, p) ==
  IF p >= Len(s) THEN -1
  ELSE IF At(s, p) = "}" THEN p
  ELSE FirstClose(s, p + 1)

\* /\\resumeSectionType\{([^}]*)\}\{([^}]*)\}\{([^}]*)\}/ at position i: the
\* match [end, group1, group2, group3], <<>> when it does not match there.
SectionTypeAt(s, i) ==
  IF ~(i + 1 < Len(s) /\ At(s, i) = SectionTypeCmd /\ At(s, i + 1) = "{") THEN <<>>
  ELSE LET c1 == FirstClose(s, i + 2) IN
       IF c1 = -1 \/ c1 + 1 >= Len(s) \/ At(s, c1 + 1) # "{" THEN <<>>
       ELSE LET c2 == FirstClose(s, c1 + 2) IN
            IF c2 = -1 \/ c2 + 1 >= Len(s) \/ At(s, c2 + 1) # "{" THEN <<>>
            ELSE LET c3 == FirstClose(s, c2 + 2) IN
                 IF c3 = -1 THEN <<>>
                 ELSE << c3 + 1, Substring(s, i + 2, c1), Substring(s, c1 + 2, c2),
                         Substring(s, c2 + 2, c3) >>

\* Array.from(latexContent.matchAll(...)): the matches from p on, in order.
RECURSIVE SectionTypeMatches(_, _)
SectionTypeMatches(s, p) ==
  IF p >= Len(s) THEN <<>>
  ELSE LET m == SectionTypeAt(s, p) IN
       IF m = <<>> THEN SectionTypeMatches(s, p + 1)
       ELSE <<m>> \o SectionTypeMatches(s, m[1])

\* label.replace(/\\&/g, '&')
UnescapeAmpersands(t) == [n \in 1 .. Len(t) |-> IF t[n] = "\\&" THEN "&" ELSE t[n]]

\* The row of one match.
SkillRow(s) ==
  <<"\n<div class=\"skill-row\">\n  <div class=\"skill-label\"><strong>">>
    \o UnescapeAmpersands(Trim(s[2]))
    \o <<"</strong></div>\n  <div class=\"skill-sep\">">>
    \o Trim(s[3])
    \o <<"</div>\n  <div class=\"skill-content\">">>
    \o Trim(s[4])
    \o <<"</div>\n</div>">>

SkillRows(ms) == Flatten([k \in 1 .. Len(ms) |-> SkillRow(ms[k])])

\* A token that begins with <h2>.
StartsHeading(tok) == tok \in {"<h2>", SkillsHeading}

\* /<h2>Technical Skills<\/h2>[\s\S]*?(?=<h2>)/ : the first heading that has
\* an <h2> after it, with that <h2>; <<>> when there is none.
SkillsRegion(h) ==
  LET ps == { p \in 0 .. Len(h) - 1 :
                /\ At(h, p) = SkillsHeading
                /\ \E q \in p + 1 .. Len(h) - 1 : StartsHeading(At(h, q)) }
  IN IF ps = {} THEN <<>>
     ELSE LET p == CHOOSE x \in ps : \A y \in ps : x <= y
              q == CHOOSE x \in p + 1 .. Len(h) - 1 :
                     /\ StartsHeading(At(h, x))
                     /\ \A y \in p + 1 .. x - 1 : ~StartsHeading(At(h, y))
          IN <<p, q>>

(* The inputs *)

\* Invocations: plain, with an escaped ampersand in a padded label, with a
\* command in the label, with a command in the content, with a blank between
\* the arguments.
SectionTypeInvocations ==
  { <<SectionTypeCmd, "{", "Languages", "}", "{", ":", "}", "{", "C", "}", "\n">>,
    <<SectionTypeCmd, "{", " ", "R", "\\&", "D", "}", "{", ":", "}", "{", "Lab", "}", "\n">>,
    <<SectionTypeCmd, "{", "\\textbf", "{", "Tools", "}", "}", "{", ":", "}", "{", "Git",
      "}", "\n">>,
    <<SectionTypeCmd, "{", "Web", "}", "{", ":", "}", "{", "\\textbf", "{", "JS", "}", ",",
      "TS", "}", "\n">>,
    <<SectionTypeCmd, "{", "Data", "}", " ", "{", ":", "}", "{", "SQL", "}", "\n">> }

SkillSources ==
  UNION { { Flatten(f) : f \in [1..n -> SectionTypeInvocations] } : n \in 0 .. MaxSkillRows }

\* The rendered document: text, the skills section as the generic renderer
\* left it or none, and the section after it or none.
SkillHtmls ==
  { <<"<p>", "intro", "</p>">> \o a \o b :
      a \in { <<>>, <<SkillsHeading, "<p>", "rendered", "</p>">> },
      b \in { <<>>, <<"<h2>", "Education", "</h2>", "<p>", "x", "</p>">> } }

InitSkills ==
  /\ skSource \in SkillSources
  /\ skHtml \in SkillHtmls
  /\ sectionType = <<>>
  /\ skOut = <<>>
  /\ pcSk = "extract"
  /\ IdleParser
  /\ IdlePasses
  /\ IdleHeadings
  /\ IdleConvert
  /\ IdleBatch
  /\ IdleCleanup
  /\ IdleIcons
  /\ IdleLists
  /\ IdleKv
  /\ IdleMerge
  /\ IdleQuadHeadings
  /\ IdleWrappers
  /\ IdleHeader

\* const macros = extractMacroMatches(latexContent): its sectionType field.
ExtractSectionTypes ==
  /\ pcSk = "extract"
  /\ sectionType' = SectionTypeMatches(skSource, 0)
  /\ pcSk' = "process"
  /\ UNCHANGED <<notSkills, skSource, skHtml, skOut>>

\* html = processTechnicalSkills(html, macros.sectionType), region found.
ProcessTechnicalSkillsReplace ==
  /\ pcSk = "process"
  /\ SkillsRegion(skHtml) # <<>>
  /\ LET r == SkillsRegion(skHtml) IN
       skOut' = Substring(skHtml, 0, r[1])
                  \o <<SkillsHeading, "<div class=\"resume-heading-list\">">>
                  \o SkillRows(sectionType)
                  \o <<"</div>\n">>
                  \o Substring(skHtml, r[2], Len(skHtml))
  /\ pcSk' = "done"
  /\ UNCHANGED <<notSkills, skSource, skHtml, sectionType>>

\* The regex does not match: the HTML is returned as it is.
ProcessTechnicalSkillsNoMatch ==
  /\ pcSk = "process"
  /\ SkillsRegion(skHtml) = <<>>
  /\ skOut' = skHtml
  /\ pcSk' = "done"
  /\ UNCHANGED <<notSkills, skSource, skHtml, sectionType>>

NextSkills ==
  \/ ExtractSectionTypes
  \/ ProcessTechnicalSkillsReplace
  \/ ProcessTechnicalSkillsNoMatch

SpecSkills == InitSkills /\ [][NextSkills]_vars

(***************************************************************************)
(* Claims about processTechnicalSkills                                     *)
(***************************************************************************)

\* The row the invocation at i of the source stands for: its three brace
\* groups, nested braces and all, trimmed, \& in the label written as &.
RowOfInvocation(s, i) ==
  LET gs == ArgumentsFrom(s, i + 1, 3) IN
  SkillRow(<<0, GroupText(s, gs[1]), GroupText(s, gs[2]), GroupText(s, gs[3])>>)

\* The rows of the invocations from p on, in source order.
RECURSIVE RowsOfInvocations(_, _)
RowsOfInvocations(s, p) ==
  IF p >= Len(s) THEN <<>>
  ELSE IF At(s, p) = SectionTypeCmd
       THEN RowOfInvocation(s, p) \o RowsOfInvocations(s, p + 1)
       ELSE RowsOfInvocations(s, p + 1)

\* C24: when the HTML has the Technical Skills heading with an <h2> after
\* it, the output is the HTML before the heading, the heading, a container
\* with one row per resumeSectionType invocation of the source in source
\* order, \& written as & in the labels, and the HTML from that <h2> on.
C24_OneRowPerInvocation ==
  (pcSk = "done" /\ SkillsRegion(skHtml) # <<>>) =>
    LET r == SkillsRegion(skHtml) IN
    skOut = Substring(skHtml, 0, r[1])
              \o <<SkillsHeading, "<div class=\"resume-heading-list\">">>
              \o RowsOfInvocations(skSource, 0)
              \o <<"</div>\n">>
              \o Substring(skHtml, r[2], Len(skHtml))

(***************************************************************************)
(* cleanupParagraphWrappers                                                *)
(*                                                                         *)
(* The fragments hold the blocks of the passes before, each opening tag    *)
(* and closing tag a token, with the paragraph tags the generic renderer   *)
(* put around them.                                                        *)
(***************************************************************************)

\* The most blocks of a fragment.
MaxWrapped == 2

ItemsOpen == "<ul class=\"resume-items\">"
HeadingListOpen == "<div class=\"resume-heading-list\">"
TrioOpen == "<div class=\"trio\">"

\* The opening tags of the grid processContactHeader emits.
ContactOpens == { "<div class=\"contact dual\">", "<div class=\"contact centered\">" }

\* The opening tags <(?:div) class="(?:contact|trio|quad|quad-details)"> matches.
GridOpens ==
  { "<div class=\"contact\">", TrioOpen, "<div class=\"quad\">",
    "<div class=\"quad-details\">" }

\* .replace(/<p>\s*(OPEN)/g, '$1') for the opening tags in opens.
RECURSIVE RemoveOpenBefore(_, _)
RemoveOpenBefore(h, opens) ==
  IF h = <<>> THEN <<>>
  ELSE LET rest == TrimStart(Tail(h)) IN
       IF Head(h) = "<p>" /\ rest # <<>> /\ Head(rest) \in opens
       THEN <<Head(rest)>> \o RemoveOpenBefore(Tail(rest), opens)
       ELSE <<Head(h)>> \o RemoveOpenBefore(Tail(h), opens)

\* .replace(/(CLOSE)\s*<\/p>/g, '$1') for the closing tag close.
RECURSIVE RemoveCloseAfter(_, _)
RemoveCloseAfter(h, close) ==
  IF h = <<>> THEN <<>>
  ELSE LET rest == TrimStart(Tail(h)) IN
       IF Head(h) = close /\ rest # <<>> /\ Head(rest) = "</p>"
       THEN <<close>> \o RemoveCloseAfter(Tail(rest), close)
       ELSE <<Head(h)>> \o RemoveCloseAfter(Tail(h), close)

\* .replace(/<\/p>\s*(<div class="trio">)/g, '$1')
RECURSIVE RemoveCloseBeforeTrio(_)
RemoveCloseBeforeTrio(h) ==
  IF h = <<>> THEN <<>>
  ELSE LET rest == TrimStart(Tail(h)) IN
       IF Head(h) = "</p>" /\ rest # <<>> /\ Head(rest) = TrioOpen
       THEN <<TrioOpen>> \o RemoveCloseBeforeTrio(Tail(rest))
       ELSE <<Head(h)>> \o RemoveCloseBeforeTrio(Tail(h))

\* The position after the first </div> at or after p, -1 when there is none.
RECURSIVE AfterDivClose(_, _)
AfterDivClose(h, p) ==
  IF p >= Len(h) THEN -1
  ELSE IF At(h, p) = "</div>" THEN p + 1
  ELSE AfterDivClose(h, p + 1)

\* The position after the blanks from p on.
RECURSIVE SkipSpaces(_, _)
SkipSpaces(h, p) == IF p < Len(h) /\ IsSpace(At(h, p)) THEN SkipSpaces(h, p + 1) ELSE p

\* /(<\/div>\s*<\/div>\s*)<div class="trio-tech">[\s\S]*?<\/div>\s*
\*  <div class="trio-link">[\s\S]*?<\/div>/ matched at p: the positions
\* <<start of the part removed, end of the match>>, <<>> when it does not match.
DuplicateTrioAt(h, p) ==
  IF ~(p < Len(h) /\ At(h, p) = "</div>") THEN <<>>
  ELSE LET q == SkipSpaces(h, p + 1) IN
       IF ~(q < Len(h) /\ At(h, q) = "</div>") THEN <<>>
       ELSE LET t == SkipSpaces(h, q + 1) IN
            IF ~(t < Len(h) /\ At(h, t) = "<div class=\"trio-tech\">") THEN <<>>
            ELSE LET c == AfterDivClose(h, t + 1)
                     l == IF c = -1 THEN -1 ELSE SkipSpaces(h, c)
                 IN IF c = -1 \/ ~(l < Len(h) /\ At(h, l) = "<div class=\"trio-link\">")
                    THEN <<>>
                    ELSE IF AfterDivClose(h, l + 1) = -1 THEN <<>>
                    ELSE <<t, AfterDivClose(h, l + 1)>>

\* The last replace, without the g flag: the first match only.
RemoveDuplicateTrio(h) ==
  LET ps == { p \in 0 .. Len(h) - 1 : DuplicateTrioAt(h, p) # <<>> } IN
  IF ps = {} THEN h
  ELSE LET m == DuplicateTrioAt(h, CHOOSE p \in ps : \A q \in ps : p <= q)
       IN Substring(h, 0, m[1]) \o Substring(h, m[2], Len(h))

(* The inputs *)

\* The blocks of passes 5-12.
WrappedBlocks ==
  { <<o, "x", "</div>">> : o \in ContactOpens \cup {HeadingListOpen, "<div class=\"quad\">",
                                                    "<div class=\"quad-details\">"} }
    \cup { <<ItemsOpen, "<li>", "x", "</li>", "</ul>">>,
           <<TrioOpen, "<div class=\"trio-title\">", "t", "</div>", "\n",
             "<div class=\"trio-tech\">", "e", "</div>", "<div class=\"trio-link\">", "l",
             "</div>", "</div>">> }

\* A block as the generic renderer wrapped it, or a paragraph of text.
WrappedUnits ==
  { pre \o b \o post : pre \in { <<>>, <<"<p>", "\n">> }, b \in WrappedBlocks,
                       post \in { <<>>, <<"\n", "</p>">> } }
    \cup { <<"<p>", "text", "</p>">> }

WrappedFragments ==
  UNION { { Flatten(f) : f \in [1..n -> WrappedUnits] } : n \in 0 .. MaxWrapped }

InitWrappers ==
  /\ wrapIn \in WrappedFragments
  /\ wrapHtml = wrapIn
  /\ pcWrap = 304
  /\ IdleParser
  /\ IdlePasses
  /\ IdleHeadings
  /\ IdleConvert
  /\ IdleBatch
  /\ IdleCleanup
  /\ IdleIcons
  /\ IdleLists
  /\ IdleKv
  /\ IdleMerge
  /\ IdleQuadHeadings
  /\ IdleSkills
  /\ IdleHeader

\* /<p>\s*(<ul class="resume-items">)/g
UnwrapItemsOpen ==
  /\ pcWrap = 304
  /\ wrapHtml' = RemoveOpenBefore(wrapHtml, {ItemsOpen})
  /\ pcWrap' = 305
  /\ UNCHANGED <<notWrappers, wrapIn>>

\* /(<\/ul>)\s*<\/p>/g
UnwrapItemsClose ==
  /\ pcWrap = 305
  /\ wrapHtml' = RemoveCloseAfter(wrapHtml, "</ul>")
  /\ pcWrap' = 306
  /\ UNCHANGED <<notWrappers, wrapIn>>

\* /<p>\s*(<div class="resume-heading-list">)/g
UnwrapHeadingListOpen ==
  /\ pcWrap = 306
  /\ wrapHtml' = RemoveOpenBefore(wrapHtml, {HeadingListOpen})
  /\ pcWrap' = 307
  /\ UNCHANGED <<notWrappers, wrapIn>>

\* /(<\/div>)\s*<\/p>/g
UnwrapHeadingListClose ==
  /\ pcWrap = 307
  /\ wrapHtml' = RemoveCloseAfter(wrapHtml, "</div>")
  /\ pcWrap' = 308
  /\ UNCHANGED <<notWrappers, wrapIn>>

\* the contact, trio, quad and quad-details openings
UnwrapGridOpen ==
  /\ pcWrap = 308
  /\ wrapHtml' = RemoveOpenBefore(wrapHtml, GridOpens)
  /\ pcWrap' = 312
  /\ UNCHANGED <<notWrappers, wrapIn>>

\* /(<\/(?:div)>)\s*<\/p>/g
UnwrapGridClose ==
  /\ pcWrap = 312
  /\ wrapHtml' = RemoveCloseAfter(wrapHtml, "</div>")
  /\ pcWrap' = 313
  /\ UNCHANGED <<notWrappers, wrapIn>>

\* /<\/p>\s*(<div class="trio">)/g
UnwrapBeforeTrio ==
  /\ pcWrap = 313
  /\ wrapHtml' = RemoveCloseBeforeTrio(wrapHtml)
  /\ pcWrap' = 314
  /\ UNCHANGED <<notWrappers, wrapIn>>

\* the duplicate trio-tech and trio-link pair
UnwrapDuplicateTrio ==
  /\ pcWrap = 314
  /\ wrapHtml' = RemoveDuplicateTrio(wrapHtml)
  /\ pcWrap' = 318
  /\ UNCHANGED <<notWrappers, wrapIn>>

NextWrappers ==
  \/ UnwrapItemsOpen
  \/ UnwrapItemsClose
  \/ UnwrapHeadingListOpen
  \/ UnwrapHeadingListClose
  \/ UnwrapGridOpen
  \/ UnwrapGridClose
  \/ UnwrapBeforeTrio
  \/ UnwrapDuplicateTrio

SpecWrappers == InitWrappers /\ [][NextWrappers]_vars

(***************************************************************************)
(* Claims about cleanupParagraphWrappers                                   *)
(***************************************************************************)

\* The opening tags of the blocks of passes 5-12.
BlockOpens ==
  ContactOpens \cup {TrioOpen, "<div class=\"quad\">", "<div class=\"quad-details\">",
                     ItemsOpen, HeadingListOpen}

\* C22: in the output no <p> comes, with only white space between, before
\* the opening tag of a contact grid, a trio, quad or quad-details block, a
\* resume-items list or a resume-heading-list container, and no </p> after
\* the closing tag of one.
C22_NoParagraphAroundBlocks ==
  pcWrap = 318 =>
    \A p \in 0 .. Len(wrapHtml) - 1 :
      LET q == SkipSpaces(wrapHtml, p + 1) IN
      q < Len(wrapHtml) =>
        /\ ~(At(wrapHtml, p) = "<p>" /\ At(wrapHtml, q) \in BlockOpens)
        /\ ~(At(wrapHtml, p) \in {"</div>", "</ul>"} /\ At(wrapHtml, q) = "</p>")

(***************************************************************************)
(* The callback of processContactHeader                                    *)
(*                                                                         *)
(* The inner text of the contact table is a sequence of tokens: a tag, an  *)
(* entity, a blank, a column specification or a word of text each.  A tag  *)
(* that lost its closing > is a token of its own.                          *)
(***************************************************************************)

NameOpen == "<span class=\"textsize-Huge\">"
SpanClose == "</span>"
LineBreak == "<br class=\"linebreak\">"
ContactLinkOpen == "<a href=\"https://x.com/u\">"
ContactLinkClose == "</a>"
VspaceSpan == "<span class=\"vspace\" style=\"margin-bottom:-5pt\"></span>"
AmpEntity == "&#x26;"
InlineMathPipe == "<span class=\"inline-math\">|</span>"
SepSpan == "<span class=\"sep\">·</span>"

\* The tokens that end with > .
ClosedTags ==
  { NameOpen, SpanClose, LineBreak, ContactLinkOpen, ContactLinkClose, VspaceSpan,
    UlineMarker, MacroClose, InlineMathPipe }

\* The tokens that start with < .
StartsWithLt(tok) == tok \in (ClosedTags \ {MacroClose}) \cup {MacroOpen}

\* The token a tag becomes when its last character, the > , is removed.
Unclosed(tok) ==
  CASE tok = NameOpen -> "<span class=\"textsize-Huge\""
    [] tok = SpanClose -> "</span"
    [] tok = LineBreak -> "<br class=\"linebreak\""
    [] tok = ContactLinkOpen -> "<a href=\"https://x.com/u\""
    [] tok = ContactLinkClose -> "</a"
    [] tok = VspaceSpan -> "<span class=\"vspace\" style=\"margin-bottom:-5pt\"></span"
    [] tok = UlineMarker -> "<span class=\"macro macro-uline\"></span"
    [] tok = MacroClose -> "\"></span"
    [] tok = InlineMathPipe -> "<span class=\"inline-math\">|</span"

\* The tokens all of whose characters are of [Xlcrp@{}].
IsColSpec(tok) == tok \in {"{l@{}r}", "X", "c"}

\* h without its leading tokens of [Xlcrp@{}]+ .
RECURSIVE AfterColSpec(_)
AfterColSpec(h) == IF h # <<>> /\ IsColSpec(Head(h)) THEN AfterColSpec(Tail(h)) ELSE h

\* .replace(/>\s*[Xlcrp@{}]+(?=\s|<)/g, ' ') : the match starts on the > of
\* the tag before, runs over the blanks and the whole run of column
\* characters, and needs a blank or a < next.
RECURSIVE StripAlignment(_)
StripAlignment(h) ==
  IF h = <<>> THEN <<>>
  ELSE LET run == TrimStart(Tail(h))
           rest == AfterColSpec(run)
       IN IF /\ Head(h) \in ClosedTags
             /\ rest # run
             /\ rest # <<>>
             /\ (IsSpace(Head(rest)) \/ StartsWithLt(Head(rest)))
          THEN <<Unclosed(Head(h)), " ">> \o StripAlignment(rest)
          ELSE <<Head(h)>> \o StripAlignment(Tail(h))

\* .replace(/<span class="vspace"[^>]*><\/span>/g, ' ')
ReplaceVspace(h) == [n \in 1 .. Len(h) |-> IF h[n] = VspaceSpan THEN " " ELSE h[n]]

\* cleanText(text)
CleanText(h) ==
  Trim(RemoveToken(
         [n \in 1 .. Len(h) |->
            CASE h[n] = LineBreak -> " "
              [] h[n] = InlineMathPipe -> SepSpan
              [] OTHER -> h[n]],
         HrefClass))

\* .replace(/^\s*[;:,\-–]\s*/, '')
StripLeadingSeparator(h) ==
  LET t == TrimStart(h) IN
  IF t # <<>> /\ Head(t) \in {";", ":", ",", "-", EnDash} THEN TrimStart(Tail(t)) ELSE h

(* The inputs *)

\* What stands before the name: nothing, or the column specification.
HeaderHeads == { <<>>, <<"{l@{}r}", " ">> }

\* What stands between the name and the line break.
HeaderMids == { <<>>, <<"{l@{}r}", " ">>, <<"\n">>, <<VspaceSpan>> }

HeaderBreaks == { <<>>, <<LineBreak>> }

\* The detail text before the entity.
HeaderPrimaries ==
  { <<"mail">>,
    <<ContactLinkOpen, "X", ContactLinkClose>>,
    <<ContactLinkOpen, "git", ContactLinkClose, LineBreak, "city">>,
    <<MacroOpen, "faMobile", MacroClose, " ", "+1 555">>,
    <<UlineMarker, "mail", " ", " ", InlineMathPipe, "\n", "git">> }

\* The entity and the detail text after it.
HeaderSecondaries ==
  { <<>>, <<AmpEntity>>, <<" ", AmpEntity, " ", "web">>, <<AmpEntity, "-", " ", "web">>,
    <<AmpEntity, "web", AmpEntity, "more">> }

HeaderInners ==
  { a \o <<NameOpen, "Jane", SpanClose>> \o b \o c \o d \o f :
      a \in HeaderHeads, b \in HeaderMids, c \in HeaderBreaks, d \in HeaderPrimaries,
      f \in HeaderSecondaries }

InitHeader ==
  /\ hdInner \in HeaderInners
  /\ hdText = hdInner
  /\ hdName = <<>>
  /\ hdAfter = <<>>
  /\ hdPrimary = <<>>
  /\ hdSecondary = <<>>
  /\ hdPrimaryClean = <<>>
  /\ hdSecondaryClean = <<>>
  /\ hdClass = ""
  /\ hdRight = <<>>
  /\ pcHeader = 71
  /\ IdleParser
  /\ IdlePasses
  /\ IdleHeadings
  /\ IdleConvert
  /\ IdleBatch
  /\ IdleCleanup
  /\ IdleIcons
  /\ IdleLists
  /\ IdleKv
  /\ IdleMerge
  /\ IdleQuadHeadings
  /\ IdleSkills
  /\ IdleWrappers

headerGroups ==
  <<hdName, hdAfter, hdPrimary, hdSecondary, hdPrimaryClean, hdSecondaryClean, hdClass,
    hdRight>>

\* .replace(/\n/g, ' ')
HeaderNewlines ==
  /\ pcHeader = 71
  /\ hdText' = ReplaceNewlines(hdText)
  /\ pcHeader' = 72
  /\ UNCHANGED <<notHeader, hdInner, headerGroups>>

\* The replace of the alignment artifacts.
HeaderAlignment ==
  /\ pcHeader = 72
  /\ hdText' = StripAlignment(hdText)
  /\ pcHeader' = 73
  /\ UNCHANGED <<notHeader, hdInner, headerGroups>>

\* The replace of the vspace spans.
HeaderVspace ==
  /\ pcHeader = 73
  /\ hdText' = ReplaceVspace(hdText)
  /\ pcHeader' = 74
  /\ UNCHANGED <<notHeader, hdInner, headerGroups>>

\* The replace of the uline spans.
HeaderUline ==
  /\ pcHeader = 74
  /\ hdText' = RemoveToken(hdText, UlineMarker)
  /\ pcHeader' = 75
  /\ UNCHANGED <<notHeader, hdInner, headerGroups>>

\* .replace(/\s{2,}/g, ' ').trim(), and replaceIconMacros of the result:
\* hdText is innerClean from here on.
HeaderInnerClean ==
  /\ pcHeader = 75
  /\ hdText' = ReplaceIconMacrosIn(Trim(CollapseRuns(hdText)))
  /\ pcHeader' = 79
  /\ UNCHANGED <<notHeader, hdInner, headerGroups>>

\* nameMatch, name and afterName.
HeaderName ==
  /\ pcHeader = 79
  /\ LET open == IndexOf(hdText, NameOpen, 0)
         close == IF open = -1 THEN -1 ELSE IndexOf(hdText, SpanClose, open + 1)
         break == IndexOf(hdText, LineBreak, 0)
     IN /\ hdName' = IF close = -1 THEN <<>> ELSE Trim(Substring(hdText, open + 1, close))
        /\ hdAfter' = IF break = -1 THEN hdText
                      ELSE TrimStart(Substring(hdText, break + 1, Len(hdText)))
  /\ pcHeader' = 87
  /\ UNCHANGED <<notHeader, hdInner, hdText, hdPrimary, hdSecondary, hdPrimaryClean,
                 hdSecondaryClean, hdClass, hdRight>>

\* ampIdx === -1: primary = afterName, secondary = ''.
HeaderNoEntity ==
  /\ pcHeader = 87
  /\ IndexOf(hdAfter, AmpEntity, 0) = -1
  /\ hdPrimary' = hdAfter
  /\ hdSecondary' = <<>>
  /\ pcHeader' = 96
  /\ UNCHANGED <<notHeader, hdInner, hdText, hdName, hdAfter, hdPrimaryClean,
                 hdSecondaryClean, hdClass, hdRight>>

\* ampIdx !== -1: slice(ampIdx + 5) starts on the last of the six characters
\* of the entity, the semicolon.
HeaderSplit ==
  /\ pcHeader = 87
  /\ LET ampIdx == IndexOf(hdAfter, AmpEntity, 0) IN
     /\ ampIdx # -1
     /\ hdPrimary' = Trim(Substring(hdAfter, 0, ampIdx))
     /\ hdSecondary' = Trim(<<";">> \o Substring(hdAfter, ampIdx + 1, Len(hdAfter)))
  /\ pcHeader' = 96
  /\ UNCHANGED <<notHeader, hdInner, hdText, hdName, hdAfter, hdPrimaryClean,
                 hdSecondaryClean, hdClass, hdRight>>

\* primaryClean and secondaryClean.
HeaderClean ==
  /\ pcHeader = 96
  /\ hdPrimaryClean' = WrapMobile(CleanText(hdPrimary))
  /\ hdSecondaryClean' = StripLeadingSeparator(CleanText(hdSecondary))
  /\ pcHeader' = 107
  /\ UNCHANGED <<notHeader, hdInner, hdText, hdName, hdAfter, hdPrimary, hdSecondary,
                 hdClass, hdRight>>

\* The layout taken by the class of the secondary group before its cleaning.
HeaderLayout_BySecondary ==
  /\ pcHeader = 107
  /\ hdClass' = IF hdSecondary # <<>> THEN "contact dual" ELSE "contact centered"
  /\ hdRight' = IF hdSecondary # <<>>
                THEN <<"<div class=\"contact-right\">">> \o hdSecondaryClean \o <<"</div>">>
                ELSE <<>>
  /\ pcHeader' = 113
  /\ UNCHANGED <<notHeader, hdInner, hdText, hdName, hdAfter, hdPrimary, hdSecondary,
                 hdPrimaryClean, hdSecondaryClean>>

\* alignmentClass and rightColumn, with which the block is returned.
HeaderLayout ==
  /\ pcHeader = 107
  /\ hdClass' = IF hdSecondaryClean # <<>> THEN "contact dual" ELSE "contact centered"
  /\ hdRight' = IF hdSecondaryClean # <<>>
                THEN <<"<div class=\"contact-right\">">> \o hdSecondaryClean \o <<"</div>">>
                ELSE <<>>
  /\ pcHeader' = 113
  /\ UNCHANGED <<notHeader, hdInner, hdText, hdName, hdAfter, hdPrimary, hdSecondary,
                 hdPrimaryClean, hdSecondaryClean>>

NextHeader ==
  \/ HeaderNewlines
  \/ HeaderAlignment
  \/ HeaderVspace
  \/ HeaderUline
  \/ HeaderInnerClean
  \/ HeaderName
  \/ HeaderNoEntity
  \/ HeaderSplit
  \/ HeaderClean
  \/ HeaderLayout

SpecHeader == InitHeader /\ [][NextHeader]_vars

(***************************************************************************)
(* Claims about processContactHeader                                       *)
(***************************************************************************)

\* The tags of a text, in order.
TagsIn(h) == SelectSeq(h, LAMBDA tok : tok \in ClosedTags \cup {MacroOpen})

\* The display texts of the links of a text, in order.
LinkTexts(h) ==
  LET ps == { p \in 1 .. Len(h) - 2 : h[p] = ContactLinkOpen /\ h[p + 2] = ContactLinkClose }
      Ordered[n \in 0 .. Len(h)] ==
        IF n = 0 THEN <<>>
        ELSE IF n \in ps THEN Append(Ordered[n - 1], h[n + 1]) ELSE Ordered[n - 1]
  IN Ordered[Len(h)]

\* C27: the stripping of the alignment artifacts leaves every tag of the
\* inner text whole, the > that closes the tag before the artifact
\* included, and leaves the display text of every link.
C27_StrippingKeepsTags ==
  pcHeader = 73 =>
    /\ TagsIn(hdText) = TagsIn(hdInner)
    /\ LinkTexts(hdText) = LinkTexts(hdInner)
    /\ \A n \in 1 .. Len(hdText) : \A tag \in ClosedTags : hdText[n] # Unclosed(tag)

\* The detail text before the first entity, and after it.
BeforeEntity(h) == Substring(h, 0, IndexOf(h, AmpEntity, 0))
AfterEntity(h) == Substring(h, IndexOf(h, AmpEntity, 0) + 1, Len(h))

\* C23: the layout is the centered one, with no contact-right column,
\* exactly when the secondary group is empty, and is so whenever the detail
\* text has no &#x26; , all of the detail text then being the primary group;
\* otherwise the layout is the dual one, the text before the first entity
\* the primary group and the text after it the secondary group.
C23_LayoutBySecondaryGroup ==
  pcHeader = 113 =>
    LET centered == hdClass = "contact centered"
        hasEntity == IndexOf(hdAfter, AmpEntity, 0) # -1
    IN /\ hdClass \in {"contact centered", "contact dual"}
       /\ centered <=> hdSecondaryClean = <<>>
       /\ centered <=> hdRight = <<>>
       /\ ~centered =>
            hdRight = <<"<div class=\"contact-right\">">> \o hdSecondaryClean \o <<"</div>">>
       /\ ~hasEntity =>
            /\ centered
            /\ hdPrimaryClean = WrapMobile(CleanText(hdAfter))
       /\ hasEntity =>
            /\ hdPrimaryClean = WrapMobile(CleanText(BeforeEntity(hdAfter)))
            /\ hdSecondaryClean = CleanText(AfterEntity(hdAfter))

\* A dual layout is emitted for a detail text with an entity and text on
\* both sides of it.
C23_Witness ==
  /\ pcHeader = 113
  /\ hdClass = "contact dual"
  /\ hdSecondaryClean = <<"-", " ", "web">>
  /\ hdPrimaryClean = <<"mail">>

====
